---- MODULE Spec2Model ----
(***************************************************************************)
(* Verification model of the fedimint consensus API (fedimint-server       *)
(* net/api.rs) and of the Lightning gateway core (ln-gateway lib.rs).      *)
(*                                                                         *)
(* The module holds one state machine per component.  Each component has   *)
(* its own initial predicate, next-state relation and specification; the   *)
(* variables of the other components stay at their initial value.          *)
(***************************************************************************)
EXTENDS Integers, Sequences, FiniteSets, TLC

VARIABLES
    \* ---- transaction admission (ConsensusApi::submit_transaction) ----
    accepted,        \* txids with an AcceptedTransactionKey record in the database
    api_sender,      \* the admission channel: queue of ApiEvent messages
    receiver_alive,  \* FALSE once the consensus side dropped the channel receiver
    sub,             \* per submit_transaction call: pc, tx, snapshot, log, result
    sent_log,        \* every ApiEvent ever put on the channel, with its sender
    \* ---- expiring cache (ExpiringCache<T>) ----
    cache_data,      \* ExpiringCache::data: none, or the value and its Instant
    cache_lock,      \* holder of the tokio Mutex around data (0: free)
    lock_queue,      \* calls waiting for the Mutex, in arrival order
    duration,        \* ExpiringCache::duration
    now,             \* the monotonic clock read by Instant::now / elapsed
    getter,          \* per ExpiringCache::get call: pc, what it saw, result
    prod_log,        \* every producer invocation: start, completion, value
    \* ---- client backup store (backup / recover endpoints) ----
    backup_db,       \* ClientBackupKey(id) -> none or {timestamp, data}
    backup_ver,      \* per key: number of commits that wrote it
    breq,            \* per backup request: pc, id, dbtx, result
    recovered,       \* per id: what the latest recover call returned
    \* ---- client config download gate (config endpoint) ----
    download_count,  \* ClientConfigDownloadKey(token) -> none or the use count
    download_ver,    \* number of commits that wrote the counter key
    signature_key,   \* the value of ClientConfigSignatureKey, once it is in the database
    download_token_limit, \* cfg.local.download_token_limit: none or a limit
    dreq,            \* per config request: pc, token, dbtx, result
    overlapped,      \* TRUE once a config request arrived while another ran
    \* ---- Lightning gateway: outgoing payments and incoming HTLCs ----
    gw,              \* the request handler in progress: kind, pc, calls, results
    runs,            \* number of handler runs started
    requests,        \* every request sent to the gateway, in the order sent
    receiver,        \* the mpsc request channel: ids of the queued requests
    cur,             \* id of the request dequeued last (0: none yet)
    \* ---- auth-gated endpoints (upgrade, process_outcome, ...) ----
    areq,            \* per request: pc, endpoint, auth token, result
    admin_log,       \* every event an auth-gated endpoint put on the channel
    \* ---- wait_transaction_status ----
    wreq,            \* per call: pc, txid, the snapshot it returned from, result
    \* ---- consensus status (calculate_consensus_status) ----
    status_in,       \* the inputs get_consensus_status collected
    status_out,      \* none, or the ConsensusStatus calculated from them
    \* ---- Lightning RPC connection (NetworkLnRpcClient::connect) ----
    lnrpc,           \* per connect call: pc, retries, sleeps, result
    \* ---- the gateway main loop (LnGateway::run) ----
    mainloop,        \* position of run(): registration, iteration, clock
    channel,         \* ids of the requests waiting on the request channel
    msgs             \* every request sent: its kind and what became of it

tx_vars == <<accepted, api_sender, receiver_alive, sub, sent_log>>
cache_vars == <<cache_data, cache_lock, lock_queue, duration, now, getter, prod_log>>

backup_vars == <<backup_db, backup_ver, breq, recovered>>

config_vars == <<download_count, download_ver, signature_key,
                 download_token_limit, dreq, overlapped>>

gw_vars == <<gw, runs, requests, receiver, cur>>

admin_vars == <<areq, admin_log>>

wait_vars == <<wreq>>

status_vars == <<status_in, status_out>>

connect_vars == <<lnrpc>>
run_vars == <<mainloop, channel, msgs>>

vars == <<tx_vars, cache_vars, backup_vars, config_vars, gw_vars, admin_vars, wait_vars, status_vars, connect_vars, run_vars>>

None == "None"

\* Option<T>
NoneOpt == [some |-> FALSE]
Some(v) == [some |-> TRUE, value |-> v]
is_some(opt) == opt.some

(***************************************************************************)
(* Bounds of the model.                                                    *)
(***************************************************************************)
NumCalls == 2        \* concurrent submit_transaction calls
ChannelCap == 1      \* capacity of the bounded admission channel
NumGetters == 3      \* ExpiringCache::get calls
MaxTime == 2         \* the clock stops ticking here
MaxDuration == 1     \* the cache duration is one of 0..MaxDuration
NumBackups == 3      \* backup requests
NumBackupIds == 1    \* backup ids (x-only public keys)
MaxTimestamp == 1    \* request timestamps are 0..MaxTimestamp
NumDownloads == 3    \* requests to the config endpoint
MaxLimit == 2        \* a configured download limit is one of 0..MaxLimit
MaxRuns == 2         \* requests sent to the gateway
NumAdminReqs == 2    \* requests to the auth-gated endpoints
NumWaiters == 1      \* wait_transaction_status calls
NumPeers == 2        \* peers of the federation besides ourselves
MaxEpoch == 3        \* contribution values (epochs) are 2..MaxEpoch
MaxAge == 1          \* a contribution was observed 0..MaxAge before the calculation
MaxGrace == 1        \* the grace duration is one of 0..MaxGrace
MaxMsgs == 2         \* requests sent on the gateway request channel
MaxIterations == 2   \* iterations of the main loop that are told apart
MaxElapsed == 2      \* the clock of an iteration stops at MaxElapsed * 100 ms

Calls == 1..NumCalls

(***************************************************************************)
(* Transactions.  An input names the note it spends; the owning module     *)
(* derives the amount from it and rejects an ill-formed input or a note    *)
(* that is already spent in the database view it is given.                 *)
(***************************************************************************)
In(m, n, a, wf) == [module |-> m, note |-> n, amount |-> a, well_formed |-> wf]
Out(m, a, wf) == [module |-> m, amount |-> a, well_formed |-> wf]
Tx(ins, outs, sig) == [inputs |-> ins, outputs |-> outs, sig_ok |-> sig]

\* The transactions the clients submit; a txid is the index in this table
\* (tx_hash is content addressed: distinct contents, distinct txids).
TxTable == <<
    Tx(<<In(0, "n1", 2, TRUE)>>, <<Out(0, 1, TRUE), Out(1, 1, TRUE)>>, TRUE),
    Tx(<<In(0, "n1", 2, TRUE)>>, <<Out(1, 1, TRUE)>>, TRUE),
    Tx(<<In(0, "n2", 1, TRUE), In(1, "n3", 1, FALSE)>>, <<Out(0, 1, TRUE)>>, TRUE),
    Tx(<<In(0, "n2", 1, TRUE)>>, <<Out(0, 1, TRUE)>>, FALSE),
    Tx(<<In(1, "n3", 2, TRUE)>>, <<Out(0, 1, TRUE), Out(1, 1, FALSE)>>, TRUE),
    Tx(<<In(0, "n2", 1, TRUE)>>, <<Out(0, 1, TRUE), Out(1, 1, TRUE)>>, TRUE),
    Tx(<<>>, <<>>, TRUE),
    Tx(<<In(0, "n4", 1, TRUE), In(1, "n5", 1, FALSE)>>,
       <<Out(0, 3, FALSE)>>, FALSE) >>

TxIds == 1..Len(TxTable)

\* with_module_prefix: the slice of a database view a module can read, here
\* the notes of module m spent by the transactions accepted in the view.
with_module_prefix(view, m) ==
    UNION { { TxTable[t].inputs[i].note :
                i \in { j \in DOMAIN TxTable[t].inputs :
                          TxTable[t].inputs[j].module = m } } : t \in view }

\* Module validate_input against the module's slice of the view.
validate_input(view, input) ==
    IF input.well_formed /\ input.note \notin with_module_prefix(view, input.module)
    THEN [ok |-> TRUE, amount |-> input.amount]
    ELSE [ok |-> FALSE, amount |-> 0]

\* Module validate_output.
validate_output(view, output) ==
    IF output.well_formed
    THEN [ok |-> TRUE, amount |-> output.amount]
    ELSE [ok |-> FALSE, amount |-> 0]

\* Transaction::validate_signature over the collected public keys.
validate_signature(tx) == tx.sig_ok

\* FundingVerifier::verify_funding.
verify_funding(input_amount, output_amount) == input_amount >= output_amount

\* State of the checks of one submission: the checks run so far, the
\* FundingVerifier sums and the first error.
NoChecks == [log |-> <<>>, input_amount |-> 0, output_amount |-> 0, err |-> None]

\* for input in &transaction.inputs { validate_input(..)?; add_input(..) }
RECURSIVE input_loop(_, _, _, _)
input_loop(tx, view, i, st) ==
    IF i > Len(tx.inputs) THEN st
    ELSE LET meta == validate_input(view, tx.inputs[i])
             logged == [st EXCEPT !.log = Append(@, <<"validate_input", i>>)]
         IN IF meta.ok
            THEN input_loop(tx, view, i + 1,
                            [logged EXCEPT !.input_amount = @ + meta.amount])
            ELSE [logged EXCEPT !.err = "InputError"]

\* for output in &transaction.outputs { validate_output(..)?; add_output(..) }
RECURSIVE output_loop(_, _, _, _)
output_loop(tx, view, i, st) ==
    IF i > Len(tx.outputs) THEN st
    ELSE LET r == validate_output(view, tx.outputs[i])
             logged == [st EXCEPT !.log = Append(@, <<"validate_output", i>>)]
         IN IF r.ok
            THEN output_loop(tx, view, i + 1,
                             [logged EXCEPT !.output_amount = @ + r.amount])
            ELSE [logged EXCEPT !.err = "OutputError"]

\* transaction.validate_signature(pub_keys.into_iter().flatten())?
signature_step(tx, st) ==
    LET logged == [st EXCEPT !.log = Append(@, <<"validate_signature", 0>>)]
    IN IF validate_signature(tx) THEN logged
       ELSE [logged EXCEPT !.err = "SignatureError"]

\* funding_verifier.verify_funding()?
funding_step(st) ==
    LET logged == [st EXCEPT !.log = Append(@, <<"verify_funding", 0>>)]
    IN IF verify_funding(st.input_amount, st.output_amount) THEN logged
       ELSE [logged EXCEPT !.err = "FundingError"]

\* submit_transaction checking the signature before the inputs.
submit_checks_signature_first(tx, view) ==
    LET s1 == signature_step(tx, NoChecks)
        s2 == IF s1.err = None THEN input_loop(tx, view, 1, s1) ELSE s1
        s3 == IF s2.err = None THEN output_loop(tx, view, 1, s2) ELSE s2
        s4 == IF s3.err = None THEN funding_step(s3) ELSE s3
    IN s4

\* submit_transaction with the funding check left out.
submit_checks_no_funding(tx, view) ==
    LET s1 == input_loop(tx, view, 1, NoChecks)
        s2 == IF s1.err = None THEN signature_step(tx, s1) ELSE s1
        s3 == IF s2.err = None THEN output_loop(tx, view, 1, s2) ELSE s2
    IN s3

\* The checks of submit_transaction between opening the database view and
\* the send, in the order of the code; each `?` returns at the first error.
submit_checks(tx, view) ==
    LET s1 == input_loop(tx, view, 1, NoChecks)
        s2 == IF s1.err = None THEN signature_step(tx, s1) ELSE s1
        s3 == IF s2.err = None THEN output_loop(tx, view, 1, s2) ELSE s2
        s4 == IF s3.err = None THEN funding_step(s3) ELSE s3
    IN s4

\* accepted_transaction_status numbering the outputs from 1.
accepted_transaction_status_from_one(txid, module_ids) ==
    [epoch |-> 0,
     outputs |-> [k \in 1..Len(module_ids) |->
                    [module |-> module_ids[k], txid |-> txid, out_idx |-> k]]]

\* accepted_transaction_status: one outcome per recorded module id, paired
\* with the output indexes 0, 1, 2, ...
accepted_transaction_status(txid, module_ids) ==
    [epoch |-> 0,
     outputs |-> [k \in 1..Len(module_ids) |->
                    [module |-> module_ids[k], txid |-> txid, out_idx |-> k - 1]]]

\* The AcceptedTransactionKey record of a committed transaction: the module
\* ids of its outputs, in order.
AcceptedRecord(txid) ==
    [k \in 1..Len(TxTable[txid].outputs) |-> TxTable[txid].outputs[k].module]

\* transaction_status: none when there is no accepted record in the view.
transaction_status(txid, view) ==
    IF txid \in view
    THEN Some(accepted_transaction_status(txid, AcceptedRecord(txid)))
    ELSE NoneOpt

(***************************************************************************)
(* Transaction admission: ConsensusApi::submit_transaction, one action per *)
(* stretch between two suspension points that touch shared state.          *)
(***************************************************************************)
IdleCall == [pc |-> "idle", tx |-> 0, committed_at_call |-> FALSE,
             view |-> {}, log |-> <<>>, result |-> None, reply |-> None]

TransactionEvent(txid) == [type |-> "Transaction", tx |-> txid]

\* The "transaction" endpoint (lines 441-454): the transaction id when
\* submit_transaction returns Ok, and every error of submit_transaction
\* mapped by ApiError::bad_request.
transaction_endpoint(result) ==
    IF result = "Ok" THEN "Ok" ELSE "bad_request"

\* The admission pipeline leaves the other components alone.
TxFrame == UNCHANGED <<cache_vars, backup_vars, config_vars, gw_vars, admin_vars, wait_vars, status_vars, connect_vars, run_vars>>

InitTx ==
    /\ accepted = {}
    /\ api_sender = <<>>
    /\ receiver_alive = TRUE
    /\ sub = [c \in Calls |-> IdleCall]
    /\ sent_log = <<>>

\* submit_transaction without the already-processed check.
SubmitCall_no_status_check(c) ==
    /\ sub[c].pc = "idle"
    /\ \E t \in TxIds :
         sub' = [sub EXCEPT ![c] =
                   [@ EXCEPT !.pc = "validate", !.tx = t,
                             !.committed_at_call = (t \in accepted)]]
    /\ UNCHANGED <<accepted, api_sender, receiver_alive, sent_log>>
    /\ TxFrame

\* The call arrives and runs the already-processed check (lines 95-101) on a
\* database transaction of its own.
SubmitCall(c) ==
    /\ sub[c].pc = "idle"
    /\ \E t \in TxIds :
         sub' = [sub EXCEPT ![c] =
                   IF is_some(transaction_status(t, accepted))
                   THEN [@ EXCEPT !.pc = "done", !.tx = t,
                                  !.committed_at_call = (t \in accepted),
                                  !.result = "Ok",
                                  !.reply = transaction_endpoint("Ok")]
                   ELSE [@ EXCEPT !.pc = "validate", !.tx = t,
                                  !.committed_at_call = (t \in accepted)]]
    /\ UNCHANGED <<accepted, api_sender, receiver_alive, sent_log>>
    /\ TxFrame

\* begin_transaction (line 111) and the checks against that view
\* (lines 113-142); the first error returns.
SubmitValidate(c) ==
    /\ sub[c].pc = "validate"
    /\ LET st == submit_checks(TxTable[sub[c].tx], accepted)
       IN sub' = [sub EXCEPT ![c] =
                    IF st.err = None
                    THEN [@ EXCEPT !.pc = "send", !.view = accepted, !.log = st.log]
                    ELSE [@ EXCEPT !.pc = "done", !.view = accepted, !.log = st.log,
                                   !.result = st.err,
                                   !.reply = transaction_endpoint(st.err)]]
    /\ UNCHANGED <<accepted, api_sender, receiver_alive, sent_log>>
    /\ TxFrame

\* A call that commits its database transaction with an accepted record of
\* its own before it sends.
SubmitSend_commit(c) ==
    /\ sub[c].pc = "send"
    /\ receiver_alive
    /\ Len(api_sender) < ChannelCap
    /\ accepted' = accepted \cup {sub[c].tx}
    /\ api_sender' = Append(api_sender, TransactionEvent(sub[c].tx))
    /\ sent_log' = Append(sent_log, [call |-> c, tx |-> sub[c].tx])
    /\ sub' = [sub EXCEPT ![c].pc = "done", ![c].result = "Ok",
                           ![c].reply = "Ok"]
    /\ UNCHANGED receiver_alive
    /\ TxFrame

\* A send that is retried: the event is queued but the call does not return.
SubmitSend_resend(c) ==
    /\ sub[c].pc = "send"
    /\ receiver_alive
    /\ Len(api_sender) < ChannelCap
    /\ api_sender' = Append(api_sender, TransactionEvent(sub[c].tx))
    /\ sent_log' = Append(sent_log, [call |-> c, tx |-> sub[c].tx])
    /\ \E again \in BOOLEAN :
         sub' = [sub EXCEPT ![c].pc = IF again THEN "send" ELSE "done",
                            ![c].result = IF again THEN None ELSE "Ok",
                            ![c].reply = IF again THEN None ELSE "Ok"]
    /\ UNCHANGED <<accepted, receiver_alive>>
    /\ TxFrame

\* api_sender.send(ApiEvent::Transaction(transaction)).await? (lines 144-148):
\* waits for capacity; fails when the receiver is gone.
SubmitSend(c) ==
    /\ sub[c].pc = "send"
    /\ IF ~receiver_alive
       THEN /\ sub' = [sub EXCEPT ![c].pc = "done", ![c].result = "SendError",
                                       ![c].reply = transaction_endpoint("SendError")]
            /\ UNCHANGED <<api_sender, sent_log>>
       ELSE /\ Len(api_sender) < ChannelCap
            /\ api_sender' = Append(api_sender, TransactionEvent(sub[c].tx))
            /\ sent_log' = Append(sent_log, [call |-> c, tx |-> sub[c].tx])
            /\ sub' = [sub EXCEPT ![c].pc = "done", ![c].result = "Ok",
                                       ![c].reply = transaction_endpoint("Ok")]
    /\ UNCHANGED <<accepted, receiver_alive>>
    /\ TxFrame

\* The consensus collaborator takes the next event; a transaction that is
\* still valid in the current database is committed: its accepted record is
\* written and its inputs are spent.
ConsensusProcess ==
    /\ receiver_alive
    /\ api_sender # <<>>
    /\ LET ev == Head(api_sender)
       IN accepted' =
            IF /\ ev.type = "Transaction"
               /\ ev.tx \notin accepted
               /\ submit_checks(TxTable[ev.tx], accepted).err = None
            THEN accepted \cup {ev.tx}
            ELSE accepted
    /\ api_sender' = Tail(api_sender)
    /\ UNCHANGED <<receiver_alive, sub, sent_log>>
    /\ TxFrame

\* The consensus side drops the receiver: queued events are lost and every
\* later send fails.
ReceiverDropped ==
    /\ receiver_alive
    /\ receiver_alive' = FALSE
    /\ api_sender' = <<>>
    /\ UNCHANGED <<accepted, sub, sent_log>>
    /\ TxFrame

NextTx ==
    \/ \E c \in Calls : SubmitCall(c)
    \/ \E c \in Calls : SubmitValidate(c)
    \/ \E c \in Calls : SubmitSend(c)
    \/ ConsensusProcess
    \/ ReceiverDropped

(***************************************************************************)
(* ExpiringCache<T> (lines 584-614).  T is ApiResult<ConsensusStatus> for  *)
(* the status endpoint: a produced value is the ordinal of the producer    *)
(* invocation that made it, tagged Ok or Err.  A tokio Mutex hands the     *)
(* lock to its waiters in arrival order.                                   *)
(***************************************************************************)
Getters == 1..NumGetters

Produced(ok, n) == [ok |-> ok, n |-> n]

IdleGetter == [pc |-> "idle", awaiting |-> 0, invoked |-> 0, result |-> NoneOpt]

\* ExpiringCache::new
RestCache ==
    /\ cache_data = NoneOpt
    /\ cache_lock = 0
    /\ lock_queue = <<>>
    /\ duration = 1
    /\ now = 0
    /\ getter = [g \in Getters |-> IdleGetter]
    /\ prod_log = <<>>

InitCache ==
    /\ cache_data = NoneOpt
    /\ cache_lock = 0
    /\ lock_queue = <<>>
    /\ duration \in 0..MaxDuration
    /\ now = 0
    /\ getter = [g \in Getters |-> IdleGetter]
    /\ prod_log = <<>>

CacheFrame == UNCHANGED <<tx_vars, backup_vars, config_vars, gw_vars, admin_vars, wait_vars, status_vars, connect_vars, run_vars>>

\* The test of lines 605-609 with a value as old as the duration still
\* taken as fresh.
cache_hit_le(data, t, d) ==
    is_some(data) /\ (t - data.value.time) <= d

\* The test of lines 605-609 with the comparison turned around.
cache_hit_reversed(data, t, d) ==
    is_some(data) /\ (t - data.value.time) > d

\* Lines 605-609: a value is stored and time.elapsed() < self.duration.
cache_hit(data, t, d) ==
    is_some(data) /\ (t - data.value.time) < d

\* Dropping the MutexGuard: the lock goes to the first waiter, if any.
ReleaseLock ==
    /\ cache_lock' = IF lock_queue = <<>> THEN 0 ELSE Head(lock_queue)
    /\ lock_queue' = IF lock_queue = <<>> THEN <<>> ELSE Tail(lock_queue)

\* The producer is started after the guard was dropped.
LockedCheck_unlocked(g) ==
    IF cache_hit(cache_data, now, duration)
    THEN /\ getter' = [getter EXCEPT ![g].pc = "done",
                                     ![g].result = Some(cache_data.value.value)]
         /\ ReleaseLock
         /\ UNCHANGED <<cache_data, prod_log>>
    ELSE /\ getter' = [getter EXCEPT ![g].pc = "producing",
                                     ![g].invoked = Len(prod_log) + 1]
         /\ prod_log' = Append(prod_log, [started |-> now, stamped |-> -1,
                                          value |-> Produced(TRUE, 0)])
         /\ ReleaseLock
         /\ UNCHANGED cache_data

\* Lines 605-610 with the lock held by g: return the stored value when it is
\* fresh, otherwise call the producer f() and keep the lock while it runs.
LockedCheck(g) ==
    IF cache_hit(cache_data, now, duration)
    THEN /\ getter' = [getter EXCEPT ![g].pc = "done",
                                     ![g].result = Some(cache_data.value.value)]
         /\ ReleaseLock
         /\ UNCHANGED <<cache_data, prod_log>>
    ELSE /\ getter' = [getter EXCEPT ![g].pc = "producing",
                                     ![g].invoked = Len(prod_log) + 1]
         /\ prod_log' = Append(prod_log, [started |-> now, stamped |-> -1,
                                          value |-> Produced(TRUE, 0)])
         /\ cache_lock' = g
         /\ UNCHANGED <<cache_data, lock_queue>>

\* The producer invocation in progress, 0 when there is none.
InFlight ==
    IF \E g \in Getters : getter[g].pc = "producing"
    THEN getter[CHOOSE g \in Getters : getter[g].pc = "producing"].invoked
    ELSE 0

\* self.data.lock().await (line 604): an uncontended lock is taken in the
\* same poll and the check follows at once; otherwise the call queues up.
GetCall(g) ==
    /\ getter[g].pc = "idle"
    /\ IF cache_lock = 0
       THEN LockedCheck(g)
       ELSE /\ getter' = [getter EXCEPT ![g].pc = "waiting",
                                        ![g].awaiting = InFlight]
            /\ lock_queue' = Append(lock_queue, g)
            /\ UNCHANGED <<cache_data, cache_lock, prod_log>>
    /\ UNCHANGED <<duration, now>>
    /\ CacheFrame

\* A queued call was handed the lock and is polled again.
WakeUp(g) ==
    /\ getter[g].pc = "waiting"
    /\ cache_lock = g
    /\ LockedCheck(g)
    /\ UNCHANGED <<duration, now>>
    /\ CacheFrame

\* A refresh that stores the producer's value only when it is Ok.
ProducerDone_skip_err(g) ==
    /\ getter[g].pc = "producing"
    /\ \E ok \in BOOLEAN :
         LET new_data == Produced(ok, getter[g].invoked)
         IN /\ cache_data' = IF ok THEN Some([value |-> new_data, time |-> now])
                             ELSE cache_data
            /\ prod_log' = [prod_log EXCEPT ![getter[g].invoked].stamped = now,
                                            ![getter[g].invoked].value = new_data]
            /\ getter' = [getter EXCEPT ![g].pc = "done",
                                        ![g].result = Some(new_data)]
    /\ ReleaseLock
    /\ UNCHANGED <<duration, now>>
    /\ CacheFrame

\* f().await completes (lines 610-612): whatever it produced is stored with
\* Instant::now(), the guard is dropped and the value returned.
ProducerDone(g) ==
    /\ getter[g].pc = "producing"
    /\ \E ok \in BOOLEAN :
         LET new_data == Produced(ok, getter[g].invoked)
         IN /\ cache_data' = Some([value |-> new_data, time |-> now])
            /\ prod_log' = [prod_log EXCEPT ![getter[g].invoked].stamped = now,
                                            ![getter[g].invoked].value = new_data]
            /\ getter' = [getter EXCEPT ![g].pc = "done",
                                        ![g].result = Some(new_data)]
    /\ ReleaseLock
    /\ UNCHANGED <<duration, now>>
    /\ CacheFrame

\* Time passes.
Tick ==
    /\ now < MaxTime
    /\ now' = now + 1
    /\ UNCHANGED <<cache_data, cache_lock, lock_queue, duration, getter, prod_log>>
    /\ CacheFrame

NextCache ==
    \/ \E g \in Getters : GetCall(g)
    \/ \E g \in Getters : WakeUp(g)
    \/ \E g \in Getters : ProducerDone(g)
    \/ Tick

(***************************************************************************)
(* The database as the API handlers see it.  ApiEndpointContext carries a  *)
(* transaction begun when the request arrives (line 401); the handler      *)
(* reads its snapshot and buffers its writes; the endpoint commits it      *)
(* after the handler returned.  Writers are serialised: a commit fails     *)
(* when a key it writes was committed by another transaction since the     *)
(* snapshot was taken.                                                     *)
(***************************************************************************)
CommitAllowed(base_ver, cur_ver) == base_ver = cur_ver

(***************************************************************************)
(* Client backup store: handle_backup_request and handle_recover_request.  *)
(***************************************************************************)
BackupReqs == 1..NumBackups
BackupIds == 1..NumBackupIds
Timestamps == 0..MaxTimestamp

ClientBackupSnapshot(ts, data) == [timestamp |-> ts, data |-> data]

IdleBackup == [pc |-> "idle", id |-> 0, sig_valid |-> FALSE, prev |-> "none",
               base_ver |-> 0, write |-> NoneOpt, result |-> None]

\* What a recover call returned: nothing yet, or the Option it got.
NotRecovered == [called |-> FALSE]
RecoveredAs(snapshot) == [called |-> TRUE, snapshot |-> snapshot]

InitBackup ==
    /\ backup_db = [id \in BackupIds |-> NoneOpt]
    /\ backup_ver = [id \in BackupIds |-> 0]
    /\ breq = [r \in BackupReqs |-> IdleBackup]
    /\ recovered = [id \in BackupIds |-> NotRecovered]

BackupFrame == UNCHANGED <<tx_vars, cache_vars, config_vars, gw_vars, admin_vars, wait_vars, status_vars, connect_vars, run_vars>>

\* handle_backup_request without verify_valid.
handle_backup_request_no_verify(request, prev) ==
    IF is_some(prev) /\ request.timestamp <= prev.value.timestamp
    THEN [result |-> "timestamp too small", write |-> NoneOpt]
    ELSE [result |-> "Ok",
          write |-> Some(ClientBackupSnapshot(request.timestamp, request.data))]

\* handle_backup_request accepting a timestamp equal to the stored one.
handle_backup_request_lt(request, prev) ==
    IF ~request.sig_valid
    THEN [result |-> "invalid request", write |-> NoneOpt]
    ELSE IF is_some(prev) /\ request.timestamp < prev.value.timestamp
    THEN [result |-> "timestamp too small", write |-> NoneOpt]
    ELSE [result |-> "Ok",
          write |-> Some(ClientBackupSnapshot(request.timestamp, request.data))]

\* handle_backup_request (lines 284-312) on the record `prev` that the
\* request's dbtx reads for its id: the result and the buffered insert.
handle_backup_request(request, prev) ==
    IF ~request.sig_valid
    THEN [result |-> "invalid request", write |-> NoneOpt]
    ELSE IF is_some(prev) /\ request.timestamp <= prev.value.timestamp
    THEN [result |-> "timestamp too small", write |-> NoneOpt]
    ELSE [result |-> "Ok",
          write |-> Some(ClientBackupSnapshot(request.timestamp, request.data))]

\* handle_recover_request (lines 314-320): a plain lookup.
handle_recover_request(db, id) == db[id]

\* How the request's timestamp compares with the one of the record read at
\* line 294: there is no record, or it is below, equal or above.
compared(timestamp, prev) ==
    IF ~is_some(prev) THEN "none"
    ELSE IF timestamp < prev.value.timestamp THEN "below"
    ELSE IF timestamp = prev.value.timestamp THEN "equal"
    ELSE "above"

\* The backup endpoint (lines 565-573): the context's dbtx is begun and the
\* handler runs on its snapshot.
BackupHandle(r) ==
    /\ breq[r].pc = "idle"
    /\ \E id \in BackupIds, ts \in Timestamps, sig \in BOOLEAN :
         LET request == [id |-> id, timestamp |-> ts, data |-> r, sig_valid |-> sig]
             out == handle_backup_request(request, backup_db[id])
         IN breq' = [breq EXCEPT ![r] =
                       [pc |-> IF out.result = "Ok" THEN "commit" ELSE "done",
                        id |-> id, sig_valid |-> sig,
                        prev |-> compared(ts, backup_db[id]),
                        base_ver |-> backup_ver[id],
                        write |-> out.write, result |-> out.result]]
    /\ UNCHANGED <<backup_db, backup_ver, recovered>>
    /\ BackupFrame

\* The endpoint commits the dbtx of a handler that returned Ok.
BackupCommit(r) ==
    /\ breq[r].pc = "commit"
    /\ LET id == breq[r].id
       IN IF CommitAllowed(breq[r].base_ver, backup_ver[id])
          THEN /\ backup_db' = [backup_db EXCEPT ![id] = breq[r].write]
               /\ backup_ver' = [backup_ver EXCEPT ![id] = @ + 1]
               /\ breq' = [breq EXCEPT ![r].pc = "done", ![r].write = NoneOpt]
          ELSE /\ breq' = [breq EXCEPT ![r].pc = "done", ![r].write = NoneOpt,
                                       ![r].result = "CommitError"]
               /\ UNCHANGED <<backup_db, backup_ver>>
    /\ UNCHANGED recovered
    /\ BackupFrame

\* The recover endpoint (lines 574-580).
Recover(id) ==
    /\ recovered' = [recovered EXCEPT
                       ![id] = RecoveredAs(handle_recover_request(backup_db, id))]
    /\ UNCHANGED <<backup_db, backup_ver, breq>>
    /\ BackupFrame

NextBackup ==
    \/ \E r \in BackupReqs : BackupHandle(r)
    \/ \E r \in BackupReqs : BackupCommit(r)
    \/ \E id \in BackupIds : Recover(id)

(***************************************************************************)
(* Client config download gate: the config endpoint (lines 499-512) and    *)
(* download_client_config (lines 199-230).                                 *)
(***************************************************************************)
DownloadReqs == 1..NumDownloads

\* The signatures the consensus side may store under ClientConfigSignatureKey.
Signatures == {"sig1", "sig2"}

IdleDownload == [pc |-> "idle", info |-> None, ordinal |-> 0, snapshot |-> NoneOpt,
                 waited |-> FALSE, signature |-> NoneOpt,
                 base_ver |-> 0, write |-> NoneOpt, result |-> None]

RestConfig ==
    /\ download_count = NoneOpt
    /\ download_ver = 0
    /\ signature_key = NoneOpt
    /\ download_token_limit = NoneOpt
    /\ dreq = [r \in DownloadReqs |-> IdleDownload]
    /\ overlapped = FALSE

InitConfig ==
    /\ download_count = NoneOpt
    /\ download_ver = 0
    /\ signature_key = NoneOpt
    /\ download_token_limit \in {NoneOpt} \cup { Some(l) : l \in 0..MaxLimit }
    /\ dreq = [r \in DownloadReqs |-> IdleDownload]
    /\ overlapped = FALSE

ConfigFrame == UNCHANGED <<tx_vars, cache_vars, backup_vars, gw_vars, admin_vars, wait_vars, status_vars, connect_vars, run_vars>>

\* Option<u64>::unwrap_or_default
unwrap_or_default(opt) == IF is_some(opt) THEN opt.value ELSE 0

\* download_client_config counting the use before it compares the token.
download_client_config_count_first(token_matches, count, limit) ==
    LET times_used == unwrap_or_default(count) + 1
    IN IF ~token_matches
       THEN [result |-> "Download token not found", write |-> Some(times_used)]
       ELSE IF is_some(limit) /\ times_used > limit.value
       THEN [result |-> "Download token used too many times",
             write |-> Some(times_used)]
       ELSE [result |-> "Ok", write |-> Some(times_used)]

\* download_client_config testing the count read instead of the new count.
download_client_config_old_count(token_matches, count, limit) ==
    IF ~token_matches
    THEN [result |-> "Download token not found", write |-> NoneOpt]
    ELSE LET times_used == unwrap_or_default(count) + 1
         IN IF is_some(limit) /\ unwrap_or_default(count) > limit.value
            THEN [result |-> "Download token used too many times",
                  write |-> Some(times_used)]
            ELSE [result |-> "Ok", write |-> Some(times_used)]

\* download_client_config rejecting the call that reaches the limit.
download_client_config_ge(token_matches, count, limit) ==
    IF ~token_matches
    THEN [result |-> "Download token not found", write |-> NoneOpt]
    ELSE LET times_used == unwrap_or_default(count) + 1
         IN IF is_some(limit) /\ times_used >= limit.value
            THEN [result |-> "Download token used too many times",
                  write |-> Some(times_used)]
            ELSE [result |-> "Ok", write |-> Some(times_used)]

\* download_client_config (lines 199-230) on the count its dbtx reads: the
\* result and the insert_entry buffered in the dbtx.
download_client_config(token_matches, count, limit) ==
    IF ~token_matches
    THEN [result |-> "Download token not found", write |-> NoneOpt]
    ELSE LET times_used == unwrap_or_default(count) + 1
         IN IF is_some(limit) /\ times_used > limit.value
            THEN [result |-> "Download token used too many times",
                  write |-> Some(times_used)]
            ELSE [result |-> "Ok", write |-> Some(times_used)]

Running(r) == dreq[r].pc \notin {"idle", "done"}

\* Matching-token requests that have arrived.
Arrived == { r \in DownloadReqs : dreq[r].info = "token" }

\* A request arrives: the context begins its dbtx (line 401), then the
\* connection code is parsed (lines 502-503).
ConfigCall(r) ==
    /\ dreq[r].pc = "idle"
    /\ \E info \in {"unparsable", "other token", "token"} :
         dreq' = [dreq EXCEPT ![r] =
                    [@ EXCEPT !.pc = IF info = "unparsable" THEN "done" ELSE "wait",
                              !.info = info,
                              !.ordinal = IF info = "token"
                                          THEN Cardinality(Arrived) + 1 ELSE 0,
                              !.snapshot = download_count,
                              !.waited = (info = "token"
                                          /\ ~is_some(signature_key)),
                              !.base_ver = download_ver,
                              !.result = IF info = "unparsable"
                                         THEN "Could not parse connection code"
                                         ELSE None]]
    /\ overlapped' = (overlapped \/ \E q \in DownloadReqs : q # r /\ Running(q))
    /\ UNCHANGED <<download_count, download_ver, signature_key, download_token_limit>>
    /\ ConfigFrame

\* A config endpoint that does not wait for the signature.
ConfigDownload_no_wait(r) ==
    /\ dreq[r].pc = "wait"
    /\ LET out == download_client_config(dreq[r].info = "token", dreq[r].snapshot,
                                         download_token_limit)
       IN dreq' = [dreq EXCEPT ![r].pc = "finish",
                               ![r].signature = signature_key,
                               ![r].write = out.write,
                               ![r].result = out.result]
    /\ UNCHANGED <<download_count, download_ver, signature_key,
                   download_token_limit, overlapped>>
    /\ ConfigFrame

\* wait_key_exists(ClientConfigSignatureKey) returns (lines 504-505) and
\* download_client_config runs on the context's dbtx (line 506).
ConfigDownload(r) ==
    /\ dreq[r].pc = "wait"
    /\ is_some(signature_key)
    /\ LET out == download_client_config(dreq[r].info = "token", dreq[r].snapshot,
                                         download_token_limit)
       IN dreq' = [dreq EXCEPT ![r].pc = "finish",
                               ![r].signature = signature_key,
                               ![r].write = out.write,
                               ![r].result = out.result]
    /\ UNCHANGED <<download_count, download_ver, signature_key,
                   download_token_limit, overlapped>>
    /\ ConfigFrame

\* The endpoint finishes the request: the dbtx of a handler that returned Ok
\* is committed, and a failed commit fails the request; the dbtx of a
\* handler that returned an error is committed or dropped.
ConfigFinish(r) ==
    /\ dreq[r].pc = "finish"
    /\ \E commit \in BOOLEAN :
         /\ dreq[r].result = "Ok" => commit
         /\ IF commit /\ is_some(dreq[r].write)
            THEN IF CommitAllowed(dreq[r].base_ver, download_ver)
                 THEN /\ download_count' = dreq[r].write
                      /\ download_ver' = download_ver + 1
                      /\ dreq' = [dreq EXCEPT ![r].pc = "done"]
                 ELSE /\ dreq' = [dreq EXCEPT
                                    ![r].pc = "done",
                                    ![r].result = IF @ = "Ok" THEN "CommitError" ELSE @]
                      /\ UNCHANGED <<download_count, download_ver>>
            ELSE /\ dreq' = [dreq EXCEPT ![r].pc = "done"]
                 /\ UNCHANGED <<download_count, download_ver>>
    /\ UNCHANGED <<signature_key, download_token_limit, overlapped>>
    /\ ConfigFrame

\* The consensus side stores the client config signature.
SignatureStored ==
    /\ ~is_some(signature_key)
    /\ \E sig \in Signatures : signature_key' = Some(sig)
    /\ UNCHANGED <<download_count, download_ver, download_token_limit, dreq, overlapped>>
    /\ ConfigFrame

NextConfig ==
    \/ \E r \in DownloadReqs : ConfigCall(r)
    \/ \E r \in DownloadReqs : ConfigDownload(r)
    \/ \E r \in DownloadReqs : ConfigFinish(r)
    \/ SignatureStored

(***************************************************************************)
(* Lightning gateway (ln-gateway lib.rs): handle_pay_invoice_msg with      *)
(* pay_invoice, and handle_htlc_incoming_msg, both over                    *)
(* buy_preimage_internal.  The main loop runs one handler at a time; every *)
(* federation or Lightning call is a suspension point whose outcome the    *)
(* gateway does not control.                                               *)
(***************************************************************************)
Ok == [ok |-> TRUE, err |-> None]
Err(e) == [ok |-> FALSE, err |-> e]

\* kind: the request handled; calls: the federation and Lightning calls made
\* so far; failed: the first call that failed; preimage_res: the result of
\* buy_preimage_internal / buy_preimage_external; pay_result: what pay_invoice
\* returned; result: what the handler returned; maybe_internal: the flag of
\* the payment parameters; offer_exists: what the offer lookup answered.
IdleGateway == [kind |-> None, pc |-> "idle", calls |-> <<>>, failed |-> None,
                maybe_internal |-> FALSE, offer_exists |-> None,
                is_internal_payment |-> FALSE,
                preimage_res |-> NoneOpt, pay_result |-> NoneOpt, result |-> NoneOpt]

InitGateway ==
    /\ gw = IdleGateway
    /\ runs = 0
    /\ requests = <<>>
    /\ receiver = <<>>
    /\ cur = 0

GatewayFrame == UNCHANGED <<tx_vars, cache_vars, backup_vars, config_vars, admin_vars, wait_vars, status_vars, connect_vars, run_vars>>

Called(g, name) == [g EXCEPT !.calls = Append(@, name)]

Failed(g, name) == [g EXCEPT !.failed = IF @ = None THEN name ELSE @]

\* A handle_pay_invoice_msg that awaits the claim whatever pay_invoice
\* returned.
PayReturn_always_await(g, res) ==
    [g EXCEPT !.pc = "await_claimed", !.pay_result = Some(res)]

\* pay_invoice returns res; handle_pay_invoice_msg (lines 334-340) goes on to
\* await_outgoing_contract_claimed only with an outpoint.
PayReturn(g, res) ==
    IF res.ok
    THEN [g EXCEPT !.pc = "await_claimed", !.pay_result = Some(res)]
    ELSE [g EXCEPT !.pc = "done", !.pay_result = Some(res), !.result = Some(res)]

\* buy_preimage_internal / buy_preimage_external return res: pay_invoice
\* matches on it (lines 247-264), handle_htlc_incoming_msg returns it.
PreimageReturn(g, res) ==
    IF g.kind = "htlc"
    THEN [g EXCEPT !.pc = "done", !.preimage_res = Some(res), !.result = Some(res)]
    ELSE [g EXCEPT !.pc = IF res.ok THEN "claim" ELSE "abort",
                   !.preimage_res = Some(res)]

\* GatewayRequest variants (lines 94-102), named by their handler.
RequestKinds == {"htlc", "pay", "balance", "address", "deposit", "withdraw"}

\* A request and the oneshot channel its reply goes to: sent counts the
\* results handed to sender.send, delivered those the requester received,
\* hung_up the "Plugin hung up" log lines.
NewRequest(kind) ==
    [kind |-> kind, reply_open |-> TRUE, sent |-> 0, delivered |-> 0,
     hung_up |-> 0, result |-> NoneOpt]

\* The webserver or the plugin puts a request on the channel.
Enqueue ==
    /\ Len(requests) < MaxRuns
    /\ gw.pc # "panicked"
    /\ \E kind \in RequestKinds :
         /\ requests' = Append(requests, NewRequest(kind))
         /\ receiver' = Append(receiver, Len(requests) + 1)
    /\ UNCHANGED <<gw, runs, cur>>
    /\ GatewayFrame

\* The requester gives up and drops the receiving end of the reply channel.
RequesterDrops ==
    /\ \E id \in DOMAIN requests :
         /\ requests[id].reply_open
         /\ requests[id].sent = 0
         /\ requests' = [requests EXCEPT ![id].reply_open = FALSE]
    /\ UNCHANGED <<gw, runs, receiver, cur>>
    /\ GatewayFrame

\* GatewayRequestInner::handle after the handler returned (lines 148-151):
\* self.sender.send(result), logged when the requester hung up.
send_reply(request, result) ==
    IF request.reply_open
    THEN [request EXCEPT !.sent = @ + 1, !.delivered = @ + 1, !.result = Some(result)]
    ELSE [request EXCEPT !.sent = @ + 1, !.hung_up = @ + 1]

\* The reply is sent in the step in which the handler of request id returns.
ReplyWhenDone(id) ==
    requests' = IF gw'.pc = "done"
                THEN [requests EXCEPT ![id] = send_reply(@, gw'.result.value)]
                ELSE requests

\* A step of the handler in progress.
HandlerStep ==
    /\ UNCHANGED <<runs, receiver, cur>>
    /\ ReplyWhenDone(cur)

\* Where the handler of a request of this kind starts;
\* handle_address_msg (lines 359-362) has no suspension point.
StartOf(kind) ==
    CASE kind = "pay" -> [IdleGateway EXCEPT !.kind = kind, !.pc = "fetch"]
      [] kind = "htlc" -> [IdleGateway EXCEPT !.kind = kind, !.pc = "buy_offer"]
      [] kind = "balance" -> [IdleGateway EXCEPT !.kind = kind, !.pc = "fetch_coins"]
      [] kind = "deposit" -> [IdleGateway EXCEPT !.kind = kind, !.pc = "peg_in"]
      [] kind = "withdraw" -> [IdleGateway EXCEPT !.kind = kind, !.pc = "peg_out_fees"]
      [] kind = "address" -> [IdleGateway EXCEPT !.kind = kind, !.pc = "done",
                                                 !.result = Some(Ok)]

\* A loop that takes the request queued last.
HandlerStart_newest_first ==
    /\ gw.pc \in {"idle", "done"}
    /\ receiver # <<>>
    /\ LET id == receiver[Len(receiver)]
       IN /\ cur' = id
          /\ receiver' = SubSeq(receiver, 1, Len(receiver) - 1)
          /\ runs' = runs + 1
          /\ gw' = StartOf(requests[id].kind)
          /\ ReplyWhenDone(id)
    /\ GatewayFrame

\* The main loop takes the next request off the channel with try_recv and
\* dispatches on its variant (lines 406-435); it gets here only after the
\* handler of the previous request returned and its reply was sent.
HandlerStart ==
    /\ gw.pc \in {"idle", "done"}
    /\ receiver # <<>>
    /\ LET id == Head(receiver)
       IN /\ cur' = id
          /\ receiver' = Tail(receiver)
          /\ runs' = runs + 1
          /\ gw' = StartOf(requests[id].kind)
          /\ ReplyWhenDone(id)
    /\ GatewayFrame

\* handle_balance_msg (lines 352-358): fetch_all_coins, the first error returns.
HandleBalance ==
    /\ gw.pc = "fetch_coins"
    /\ \E ok \in BOOLEAN :
         LET g == Called(gw, "fetch_all_coins")
         IN gw' = [g EXCEPT !.pc = "done",
                            !.result = Some(IF ok THEN Ok ELSE Err("fetch_all_coins"))]
    /\ HandlerStep
    /\ GatewayFrame

\* handle_deposit_msg (lines 364-370): peg_in
HandleDeposit ==
    /\ gw.pc = "peg_in"
    /\ \E ok \in BOOLEAN :
         LET g == Called(gw, "peg_in")
         IN gw' = [g EXCEPT !.pc = "done",
                            !.result = Some(IF ok THEN Ok ELSE Err("peg_in"))]
    /\ HandlerStep
    /\ GatewayFrame

\* handle_withdraw_msg (lines 374-378): new_peg_out_with_fees(..).await.unwrap()
\* panics on an error; the panic unwinds run() and the loop is gone.
WithdrawFees ==
    /\ gw.pc = "peg_out_fees"
    /\ \E ok \in BOOLEAN :
         LET g == Called(gw, "new_peg_out_with_fees")
         IN gw' = IF ok THEN [g EXCEPT !.pc = "peg_out"]
                  ELSE [Failed(g, "new_peg_out_with_fees") EXCEPT !.pc = "panicked"]
    /\ HandlerStep
    /\ GatewayFrame

\* handle_withdraw_msg (lines 379-383): peg_out
WithdrawPegOut ==
    /\ gw.pc = "peg_out"
    /\ \E ok \in BOOLEAN :
         LET g == Called(gw, "peg_out")
         IN gw' = [g EXCEPT !.pc = "done",
                            !.result = Some(IF ok THEN Ok ELSE Err("peg_out"))]
    /\ HandlerStep
    /\ GatewayFrame

\* fetch_outgoing_contract(contract_id).await? (lines 209-212)
PayFetch ==
    /\ gw.pc = "fetch"
    /\ \E ok \in BOOLEAN :
         LET g == Called(gw, "fetch_outgoing_contract")
         IN gw' = IF ok THEN [g EXCEPT !.pc = "validate"]
                  ELSE PayReturn(Failed(g, "fetch_outgoing_contract"),
                                 Err("fetch_outgoing_contract"))
    /\ HandlerStep
    /\ GatewayFrame

\* validate_outgoing_account(..).await? and save_outgoing_payment (lines
\* 214-225); offer_exists is looked up only when maybe_internal (line 227).
PayValidate ==
    /\ gw.pc = "validate"
    /\ \E ok \in BOOLEAN, maybe_internal \in BOOLEAN :
         LET g == Called(gw, "validate_outgoing_account")
         IN gw' = IF ok
                  THEN [Called(g, "save_outgoing_payment") EXCEPT
                          !.maybe_internal = maybe_internal,
                          !.pc = IF maybe_internal THEN "offer_exists"
                                 ELSE "pay_external"]
                  ELSE PayReturn(Failed(g, "validate_outgoing_account"),
                                 Err("validate_outgoing_account"))
    /\ HandlerStep
    /\ GatewayFrame

\* The test of lines 227-233 with a failed lookup taken for an offer.
internal_payment_unwrap_or_true(maybe_internal, answer) ==
    maybe_internal /\ (answer \in {"true", "error"})

\* maybe_internal && offer_exists(..).await.unwrap_or(false) (lines 227-233):
\* the answer of the lookup is Ok(true), Ok(false) or an error.
internal_payment(maybe_internal, answer) ==
    maybe_internal /\ (answer = "true")

\* ln_client().offer_exists(payment_hash).await.unwrap_or(false)
\* (lines 228-233) and the choice of the path (lines 235-245)
PayOfferExists ==
    /\ gw.pc = "offer_exists"
    /\ \E answer \in {"true", "false", "error"} :
         LET internal == internal_payment(gw.maybe_internal, answer)
         IN gw' = [Called(gw, "offer_exists") EXCEPT
                     !.offer_exists = answer,
                     !.is_internal_payment = internal,
                     !.pc = IF internal THEN "buy_offer" ELSE "pay_external"]
    /\ HandlerStep
    /\ GatewayFrame

\* buy_preimage_internal: buy_preimage_offer(..).await? (lines 273-276)
BuyPreimageOffer ==
    /\ gw.pc = "buy_offer"
    /\ \E ok \in BOOLEAN :
         LET g == Called(gw, "buy_preimage_offer")
         IN gw' = IF ok THEN [g EXCEPT !.pc = "decrypt"]
                  ELSE PreimageReturn(Failed(g, "buy_preimage_offer"),
                                      Err("buy_preimage_offer"))
    /\ HandlerStep
    /\ GatewayFrame

\* buy_preimage_internal: await_preimage_decryption (lines 279-288)
AwaitPreimageDecryption ==
    /\ gw.pc = "decrypt"
    /\ \E ok \in BOOLEAN :
         LET g == Called(gw, "await_preimage_decryption")
         IN gw' = IF ok THEN PreimageReturn(g, Ok)
                  ELSE [Failed(g, "await_preimage_decryption") EXCEPT !.pc = "refund"]
    /\ HandlerStep
    /\ GatewayFrame

\* buy_preimage_internal: refund_incoming_contract(..).await? and
\* Err(ClientError(e)) (lines 289-293)
RefundIncomingContract ==
    /\ gw.pc = "refund"
    /\ \E ok \in BOOLEAN :
         LET g == Called(gw, "refund_incoming_contract")
         IN gw' = PreimageReturn(g, IF ok THEN Err("await_preimage_decryption")
                                    ELSE Err("refund_incoming_contract"))
    /\ HandlerStep
    /\ GatewayFrame

\* buy_preimage_external: ln_client.pay (lines 298-321)
BuyPreimageExternal ==
    /\ gw.pc = "pay_external"
    /\ \E ok \in BOOLEAN :
         LET g == Called(gw, "ln_pay")
         IN gw' = IF ok THEN PreimageReturn(g, Ok)
                  ELSE PreimageReturn(Failed(g, "ln_pay"), Err("ln_pay"))
    /\ HandlerStep
    /\ GatewayFrame

\* Ok(preimage): claim_outgoing_contract(..).await? (lines 248-255)
ClaimOutgoingContract ==
    /\ gw.pc = "claim"
    /\ \E ok \in BOOLEAN :
         LET g == Called(gw, "claim_outgoing_contract")
         IN gw' = IF ok THEN PayReturn(g, Ok)
                  ELSE PayReturn(Failed(g, "claim_outgoing_contract"),
                                 Err("claim_outgoing_contract"))
    /\ HandlerStep
    /\ GatewayFrame

\* Err(e): abort_outgoing_payment(contract_id).await?; Err(e) (lines 256-263)
AbortOutgoingPayment ==
    /\ gw.pc = "abort"
    /\ \E ok \in BOOLEAN :
         LET g == Called(gw, "abort_outgoing_payment")
         IN gw' = IF ok THEN PayReturn(g, gw.preimage_res.value)
                  ELSE PayReturn(g, Err("abort_outgoing_payment"))
    /\ HandlerStep
    /\ GatewayFrame

\* handle_pay_invoice_msg: await_outgoing_contract_claimed (lines 337-339)
AwaitOutgoingContractClaimed ==
    /\ gw.pc = "await_claimed"
    /\ \E ok \in BOOLEAN :
         gw' = [Called(gw, "await_outgoing_contract_claimed") EXCEPT
                  !.pc = "done",
                  !.result = Some(IF ok THEN Ok
                                  ELSE Err("await_outgoing_contract_claimed"))]
    /\ HandlerStep
    /\ GatewayFrame

NextGateway ==
    \/ Enqueue
    \/ RequesterDrops
    \/ HandlerStart
    \/ HandleBalance
    \/ HandleDeposit
    \/ WithdrawFees
    \/ WithdrawPegOut
    \/ PayFetch
    \/ PayValidate
    \/ PayOfferExists
    \/ BuyPreimageOffer
    \/ AwaitPreimageDecryption
    \/ RefundIncomingContract
    \/ BuyPreimageExternal
    \/ ClaimOutgoingContract
    \/ AbortOutgoingPayment
    \/ AwaitOutgoingContractClaimed

(***************************************************************************)
(* Auth-gated endpoints (lines 519-564): upgrade, process_outcome and      *)
(* get_verify_config_hash.  The context of a request (lines 395-415)       *)
(* records whether the request's auth token equals cfg.private.api_auth.   *)
(***************************************************************************)
AdminReqs == 1..NumAdminReqs

\* cfg.private.api_auth
ApiAuth == "api_auth"

\* What a request can carry as its auth token.
AuthTokens == {NoneOpt, Some(ApiAuth), Some("other")}

AdminEndpoints == {"upgrade", "process_outcome", "get_verify_config_hash"}

IdleAdmin == [pc |-> "idle", endpoint |-> None, auth |-> NoneOpt,
              has_auth |-> FALSE, decodable |-> TRUE, sends |-> 0,
              result |-> None]

InitAdmin ==
    /\ areq = [r \in AdminReqs |-> IdleAdmin]
    /\ admin_log = <<>>

AdminFrame == UNCHANGED <<accepted, sub, sent_log, cache_vars, backup_vars,
                          config_vars, gw_vars, wait_vars, status_vars, connect_vars, run_vars>>

\* An auth check that only looks whether a token is attached.
has_auth_any_token(request_auth, api_auth) == is_some(request_auth)

\* request.auth == Some(self.cfg.private.api_auth.clone()) (line 409)
has_auth(request_auth, api_auth) == request_auth = Some(api_auth)

\* The event an endpoint sends once authorised (lines 251-264).
AdminEvent(endpoint) ==
    IF endpoint = "upgrade" THEN [type |-> "UpgradeSignal", tx |-> 0]
    ELSE [type |-> "ForceProcessOutcome", tx |-> 0]

\* The "upgrade" and "process_outcome" endpoints (lines 519-541) map every
\* error of signal_upgrade and of force_process_outcome, the bad request of
\* an outcome that does not decode (lines 257-259) included, by
\* ApiError::server_error.
admin_endpoint(result) ==
    IF result = "Ok" THEN "Ok" ELSE "server_error"

\* The request arrives: its context is built and the handler runs up to its
\* first suspension point.  process_outcome decodes the outcome before it
\* sends (lines 257-259); get_verify_config_hash sends nothing.
AdminCall(r) ==
    /\ areq[r].pc = "idle"
    /\ \E endpoint \in AdminEndpoints, auth \in AuthTokens, decodable \in BOOLEAN :
         LET authed == has_auth(auth, ApiAuth)
             arrived == [IdleAdmin EXCEPT !.endpoint = endpoint, !.auth = auth,
                                          !.has_auth = authed,
                                          !.decodable = (endpoint = "process_outcome"
                                                         => decodable)]
         IN areq' = [areq EXCEPT ![r] =
              IF ~authed
              THEN [arrived EXCEPT !.pc = "done", !.result = "unauthorized"]
              ELSE IF endpoint = "get_verify_config_hash"
              THEN [arrived EXCEPT !.pc = "done", !.result = "Ok"]
              ELSE IF endpoint = "process_outcome" /\ ~decodable
              THEN [arrived EXCEPT !.pc = "done",
                                   !.result = admin_endpoint("bad_request")]
              ELSE [arrived EXCEPT !.pc = "send"]]
    /\ UNCHANGED <<api_sender, receiver_alive, admin_log>>
    /\ AdminFrame

\* api_sender.send(..).await: waits for capacity; fails when the receiver is
\* gone, which the endpoint reports as a server error.
AdminSend(r) ==
    /\ areq[r].pc = "send"
    /\ IF ~receiver_alive
       THEN /\ areq' = [areq EXCEPT ![r].pc = "done", ![r].sends = @ + 1,
                                    ![r].result = admin_endpoint("server_error")]
            /\ UNCHANGED <<api_sender, admin_log>>
       ELSE /\ Len(api_sender) < ChannelCap
            /\ api_sender' = Append(api_sender, AdminEvent(areq[r].endpoint))
            /\ admin_log' = Append(admin_log,
                                   [req |-> r, type |-> AdminEvent(areq[r].endpoint).type])
            /\ areq' = [areq EXCEPT ![r].pc = "done", ![r].sends = @ + 1,
                                    ![r].result = admin_endpoint("Ok")]
    /\ UNCHANGED receiver_alive
    /\ AdminFrame

NextAdmin ==
    \/ \E r \in AdminReqs : AdminCall(r)
    \/ \E r \in AdminReqs : AdminSend(r)
    \/ ConsensusProcess
    \/ ReceiverDropped

(***************************************************************************)
(* wait_transaction_status (lines 163-171): Database::wait_key_check       *)
(* suspends the call until AcceptedTransactionKey(txid) exists and returns *)
(* the record with a database transaction that sees it; the status is      *)
(* composed from that transaction.  The record is written by the consensus *)
(* side of the admission pipeline.                                         *)
(***************************************************************************)
Waiters == 1..NumWaiters

IdleWaiter == [pc |-> "idle", op |-> None, txid |-> 0, absent_at_call |-> FALSE,
               view |-> {}, result |-> NoneOpt]

InitWait == wreq = [w \in Waiters |-> IdleWaiter]

WaitFrame == UNCHANGED <<tx_vars, cache_vars, backup_vars, config_vars,
                         gw_vars, admin_vars, status_vars, connect_vars, run_vars>>

\* Database::wait_key_check: the key is present in the current database.
wait_key_check(txid, db) == txid \in db

\* The call arrives and suspends in wait_key_check.
WaitCall(w) ==
    /\ wreq[w].pc = "idle"
    /\ \E t \in TxIds :
         wreq' = [wreq EXCEPT ![w] =
                    [IdleWaiter EXCEPT !.pc = "waiting", !.op = "wait", !.txid = t,
                                       !.absent_at_call = (t \notin accepted)]]
    /\ WaitFrame

\* transaction_status(txid) (lines 151-161): one database transaction, no
\* suspension on shared state between the lookup and the composition.
StatusCall(w) ==
    /\ wreq[w].pc = "idle"
    /\ \E t \in TxIds :
         wreq' = [wreq EXCEPT ![w] =
                    [IdleWaiter EXCEPT !.pc = "done", !.op = "status", !.txid = t,
                                       !.absent_at_call = (t \notin accepted),
                                       !.view = accepted,
                                       !.result = transaction_status(t, accepted)]]
    /\ WaitFrame

\* A wait that gives up and composes the status from whatever is there.
WaitReturn_unchecked(w) ==
    /\ wreq[w].pc = "waiting"
    /\ wreq' = [wreq EXCEPT ![w] =
                  [@ EXCEPT !.pc = "done", !.view = accepted,
                            !.result = Some(accepted_transaction_status(
                                              wreq[w].txid,
                                              AcceptedRecord(wreq[w].txid)))]]
    /\ WaitFrame

\* wait_key_check completes with the record and a transaction that sees it;
\* accepted_transaction_status composes the result (lines 169-170).
WaitReturn(w) ==
    /\ wreq[w].pc = "waiting"
    /\ wait_key_check(wreq[w].txid, accepted)
    /\ wreq' = [wreq EXCEPT ![w] =
                  [@ EXCEPT !.pc = "done", !.view = accepted,
                            !.result = Some(accepted_transaction_status(
                                              wreq[w].txid,
                                              AcceptedRecord(wreq[w].txid)))]]
    /\ WaitFrame

\* The consensus collaborator commits a transaction that is valid in the
\* current database: its accepted record is written and its inputs are spent.
ConsensusCommit ==
    /\ \E t \in TxIds :
         /\ t \notin accepted
         /\ submit_checks(TxTable[t], accepted).err = None
         /\ accepted' = accepted \cup {t}
    /\ UNCHANGED <<api_sender, receiver_alive, sub, sent_log>>
    /\ TxFrame

NextWait ==
    \/ \E w \in Waiters : WaitCall(w)
    \/ \E w \in Waiters : StatusCall(w)
    \/ \E w \in Waiters : WaitReturn(w)
    \/ ConsensusCommit

(***************************************************************************)
(* calculate_consensus_status (lines 323-391), a pure function of the      *)
(* latest contribution of each peer, our own last contribution, the        *)
(* connection status of each peer and the grace duration.  A contribution  *)
(* carries the time it was observed; its age is read off the clock at the  *)
(* time of the calculation.                                                *)
(***************************************************************************)
PeerIds == 0..(NumPeers - 1)

Epochs == 2..MaxEpoch

\* ConsensusContribution { value, time }
Contributions == [value : Epochs, time : 0..MaxAge]

\* anyhow::Result<PeerConnectionStatus>
ConnectionResults == {"Err", "Disconnected", "Connected"}

\* All maps from some of the peers to values in V.
PeerMaps(V) == UNION { [S -> V] : S \in SUBSET PeerIds }

StatusInputs ==
    [latest_contribution_by_peer : PeerMaps(Contributions),
     our_last_contribution : Epochs,
     peers_connection_status : PeerMaps(ConnectionResults),
     max_duration_for_recent_contribution : 0..MaxGrace]

\* The calculation runs when the clock reads MaxAge: contribution.time.elapsed()
elapsed(time) == MaxAge - time

\* The closure at lines 336-370 with a peer that has no contribution flagged
\* only when it is not connected.
peer_consensus_status_unknown_unflagged(peer, latest, our_last, conn, grace) ==
    LET has_contribution == peer \in DOMAIN latest
        has_recent_contribution ==
            IF has_contribution THEN elapsed(latest[peer].time) <= grace ELSE FALSE
        flagged1 ==
            IF has_contribution
            THEN (latest[peer].value < our_last) /\ ~has_recent_contribution
            ELSE FALSE
        connected == peer \in DOMAIN conn /\ conn[peer] = "Connected"
    IN [last_contribution |-> IF has_contribution THEN Some(latest[peer].value)
                              ELSE NoneOpt,
        flagged |-> IF connected THEN flagged1
                    ELSE flagged1 \/ ~has_recent_contribution,
        connection_status |-> IF connected THEN "Connected" ELSE "Disconnected"]

\* The closure at lines 336-370 with the flag of a contributing peer set by
\* is_behind_us alone.
peer_consensus_status_behind_only(peer, latest, our_last, conn, grace) ==
    LET has_contribution == peer \in DOMAIN latest
        has_recent_contribution ==
            IF has_contribution THEN elapsed(latest[peer].time) <= grace ELSE FALSE
        flagged1 ==
            IF has_contribution
            THEN latest[peer].value < our_last
            ELSE TRUE
        connected == peer \in DOMAIN conn /\ conn[peer] = "Connected"
    IN [last_contribution |-> IF has_contribution THEN Some(latest[peer].value)
                              ELSE NoneOpt,
        flagged |-> IF connected THEN flagged1
                    ELSE flagged1 \/ ~has_recent_contribution,
        connection_status |-> IF connected THEN "Connected" ELSE "Disconnected"]

\* The closure at lines 336-370: the status of one peer.
peer_consensus_status(peer, latest, our_last, conn, grace) ==
    LET has_contribution == peer \in DOMAIN latest
        has_recent_contribution ==
            IF has_contribution THEN elapsed(latest[peer].time) <= grace ELSE FALSE
        flagged1 ==
            IF has_contribution
            THEN (latest[peer].value < our_last) /\ ~has_recent_contribution
            ELSE TRUE
        connected == peer \in DOMAIN conn /\ conn[peer] = "Connected"
    IN [last_contribution |-> IF has_contribution THEN Some(latest[peer].value)
                              ELSE NoneOpt,
        flagged |-> IF connected THEN flagged1
                    ELSE flagged1 \/ ~has_recent_contribution,
        connection_status |-> IF connected THEN "Connected" ELSE "Disconnected"]

\* The peer universe taken from the connection map alone.
status_peers_connection_only(latest, conn) == DOMAIN conn

\* lines 329-333: the keys of the connection map extended by the keys of the
\* contribution map.
status_peers(latest, conn) == (DOMAIN conn) \cup (DOMAIN latest)

calculate_consensus_status(latest, our_last, conn, grace) ==
    LET peers == status_peers(latest, conn)
        by_peer == [p \in peers |->
                      peer_consensus_status(p, latest, our_last, conn, grace)]
    IN [last_contribution |-> our_last,
        peers_online |->
            Cardinality({p \in peers : by_peer[p].connection_status = "Connected"}),
        peers_offline |->
            Cardinality({p \in peers : by_peer[p].connection_status = "Disconnected"}),
        peers_flagged |-> Cardinality({p \in peers : by_peer[p].flagged}),
        status_by_peer |-> by_peer]

InitStatus ==
    /\ status_in \in StatusInputs
    /\ status_out = NoneOpt

\* Before the first status request: fixed inputs.
RestStatus ==
    /\ status_in = [latest_contribution_by_peer |-> << >>,
                    our_last_contribution |-> 2,
                    peers_connection_status |-> << >>,
                    max_duration_for_recent_contribution |-> 0]
    /\ status_out = NoneOpt

StatusFrame == UNCHANGED <<tx_vars, cache_vars, backup_vars, config_vars,
                           gw_vars, admin_vars, wait_vars, connect_vars, run_vars>>

\* get_consensus_status (lines 266-282) hands the collected inputs to
\* calculate_consensus_status.
CalculateStatus ==
    /\ status_out = NoneOpt
    /\ status_out' = Some(calculate_consensus_status(
                            status_in.latest_contribution_by_peer,
                            status_in.our_last_contribution,
                            status_in.peers_connection_status,
                            status_in.max_duration_for_recent_contribution))
    /\ UNCHANGED status_in
    /\ StatusFrame

NextStatus == CalculateStatus

(***************************************************************************)
(* NetworkLnRpcClient::connect (lnrpc_client.rs lines 69-91): every RPC    *)
(* method opens its connection through this retry loop.                    *)
(***************************************************************************)
MAX_LIGHTNING_RETRIES == 10

\* The RPC methods whose connect calls run side by side: info for the
\* webserver, pay for an outgoing payment.
Connects == {"info", "pay"}

\* retries: the loop counter; connects: calls of GatewayLightningClient::
\* connect; failed: attempts that did not yield a client; slept: completed
\* one-second sleeps.
IdleConnect == [pc |-> "idle", url_ok |-> FALSE, retries |-> 0, connects |-> 0,
                failed |-> 0, slept |-> 0, result |-> NoneOpt]

InitConnect == lnrpc = [c \in Connects |-> IdleConnect]

ConnectFrame == UNCHANGED <<tx_vars, cache_vars, backup_vars, config_vars,
                            gw_vars, admin_vars, wait_vars, status_vars, run_vars>>

\* An RPC method calls connect(connection_url); Endpoint::from_shared either
\* accepts the url on every attempt or rejects it on every attempt.
ConnectCall(c) ==
    /\ lnrpc[c].pc = "idle"
    /\ \E url_ok \in BOOLEAN :
         lnrpc' = [lnrpc EXCEPT ![c] = [IdleConnect EXCEPT !.pc = "loop",
                                                         !.url_ok = url_ok]]
    /\ ConnectFrame

\* The loop giving up only after one attempt more.
ConnectLoop_one_more(c) ==
    /\ lnrpc[c].pc = "loop"
    /\ lnrpc' = [lnrpc EXCEPT ![c] =
         IF lnrpc[c].retries > MAX_LIGHTNING_RETRIES
         THEN [@ EXCEPT !.pc = "done",
                        !.result = Some(Err("Failed to connect to CLN"))]
         ELSE IF lnrpc[c].url_ok
         THEN [@ EXCEPT !.pc = "connecting", !.retries = @ + 1]
         ELSE [@ EXCEPT !.pc = "sleeping", !.retries = @ + 1, !.failed = @ + 1]]
    /\ ConnectFrame

\* Top of the loop (lines 72-81): give up after MAX_LIGHTNING_RETRIES
\* attempts, else count the attempt and, with a usable endpoint, connect.
ConnectLoop(c) ==
    /\ lnrpc[c].pc = "loop"
    /\ lnrpc' = [lnrpc EXCEPT ![c] =
         IF lnrpc[c].retries >= MAX_LIGHTNING_RETRIES
         THEN [@ EXCEPT !.pc = "done",
                        !.result = Some(Err("Failed to connect to CLN"))]
         ELSE IF lnrpc[c].url_ok
         THEN [@ EXCEPT !.pc = "connecting", !.retries = @ + 1]
         ELSE [@ EXCEPT !.pc = "sleeping", !.retries = @ + 1, !.failed = @ + 1]]
    /\ ConnectFrame

\* GatewayLightningClient::connect(endpoint).await returns (lines 81-83).
ConnectAttempt(c) ==
    /\ lnrpc[c].pc = "connecting"
    /\ \E ok \in BOOLEAN :
         lnrpc' = [lnrpc EXCEPT ![c] =
           IF ok
           THEN [@ EXCEPT !.pc = "done", !.connects = @ + 1, !.result = Some(Ok)]
           ELSE [@ EXCEPT !.pc = "sleeping", !.connects = @ + 1, !.failed = @ + 1]]
    /\ ConnectFrame

\* sleep(Duration::from_secs(1)).await returns (lines 86-87).
ConnectSleep(c) ==
    /\ lnrpc[c].pc = "sleeping"
    /\ lnrpc' = [lnrpc EXCEPT ![c] = [@ EXCEPT !.pc = "loop", !.slept = @ + 1]]
    /\ ConnectFrame

\* The next step of a call in progress.
ConnectStep(c) == ConnectLoop(c) \/ ConnectAttempt(c) \/ ConnectSleep(c)

NextConnect ==
    \/ \E c \in Connects : ConnectCall(c)
    \/ \E c \in Connects : ConnectLoop(c)
    \/ \E c \in Connects : ConnectAttempt(c)
    \/ \E c \in Connects : ConnectSleep(c)

(***************************************************************************)
(* LnGateway::run (lines 386-440) as a loop: registration, then iterations *)
(* of coin fetch, drain of the request channel and sleep.  A handler is    *)
(* one step here; its calls are the subject of the payment state machine   *)
(* above.  Time is counted in units of 100 ms from the start of the        *)
(* iteration.                                                              *)
(***************************************************************************)
\* Duration::from_millis(100)
LoopPeriod == 1

IdleLoop == [pc |-> "register", registered |-> FALSE, iteration |-> 0,
             elapsed |-> 0, fetched |-> FALSE, logged |-> 0, cur |-> 0]

InitRun ==
    /\ mainloop = IdleLoop
    /\ channel = <<>>
    /\ msgs = <<>>

RunFrame == UNCHANGED <<tx_vars, cache_vars, backup_vars, config_vars, gw_vars, admin_vars, wait_vars, status_vars, connect_vars>>

\* let least_wait_until = Instant::now() + Duration::from_millis(100): a new
\* iteration starts and its clock with it.
StartIteration(l) ==
    [l EXCEPT !.pc = "fetch",
              !.iteration = IF @ < MaxIterations THEN @ + 1 ELSE @,
              !.elapsed = 0, !.fetched = FALSE, !.logged = 0]

\* The webserver or the plugin sends a request on the channel.
RunSend ==
    /\ Len(msgs) < MaxMsgs
    /\ mainloop.pc # "panicked"
    /\ \E kind \in RequestKinds :
         /\ msgs' = Append(msgs, [kind |-> kind, state |-> "queued",
                                  iteration |-> 0, fetched |-> FALSE,
                                  logged |-> 0])
         /\ channel' = Append(channel, Len(msgs) + 1)
    /\ UNCHANGED mainloop
    /\ RunFrame

\* register_with_federation(..).await.expect(..) (lines 391-394): a failure
\* panics before the loop is entered.
RunRegister ==
    /\ mainloop.pc = "register"
    /\ \E ok \in BOOLEAN :
         mainloop' = IF ok THEN StartIteration([mainloop EXCEPT !.registered = TRUE])
                     ELSE [mainloop EXCEPT !.pc = "panicked"]
    /\ UNCHANGED <<channel, msgs>>
    /\ RunFrame

\* fetch_all_coins().await, every error logged (lines 399-403).
RunFetchCoins ==
    /\ mainloop.pc = "fetch"
    /\ \E failed \in BOOLEAN :
         mainloop' = [mainloop EXCEPT !.pc = "try_recv", !.fetched = TRUE,
                                      !.logged = IF failed THEN 1 ELSE 0]
    /\ UNCHANGED <<channel, msgs>>
    /\ RunFrame

\* while let Ok(msg) = self.receiver.try_recv() (line 406): the next request
\* is dispatched to its handler, an empty channel ends the drain.
RunTryRecv ==
    /\ mainloop.pc = "try_recv"
    /\ IF channel = <<>>
       THEN /\ mainloop' = [mainloop EXCEPT !.pc = "sleep"]
            /\ UNCHANGED <<channel, msgs>>
       ELSE /\ mainloop' = [mainloop EXCEPT !.pc = "handling", !.cur = Head(channel)]
            /\ channel' = Tail(channel)
            /\ msgs' = [msgs EXCEPT ![Head(channel)] =
                          [@ EXCEPT !.state = "handling",
                                    !.iteration = mainloop.iteration,
                                    !.fetched = mainloop.fetched,
                                    !.logged = mainloop.logged]]
    /\ RunFrame

\* How the handler of a request of this kind can end: handle_withdraw_msg
\* unwraps the result of new_peg_out_with_fees (lines 374-378).
HandlerOutcomes(kind) ==
    IF kind = "withdraw" THEN {"returns", "panics"} ELSE {"returns"}

\* inner.handle(..).await (lines 409-434 and 146-152): the handler returns
\* and its result is sent on the reply channel, or it panics and run() is
\* gone.
RunHandlerEnd ==
    /\ mainloop.pc = "handling"
    /\ \E outcome \in HandlerOutcomes(msgs[mainloop.cur].kind) :
         IF outcome = "returns"
         THEN /\ mainloop' = [mainloop EXCEPT !.pc = "try_recv", !.cur = 0]
              /\ msgs' = [msgs EXCEPT ![mainloop.cur].state = "answered"]
         ELSE /\ mainloop' = [mainloop EXCEPT !.pc = "panicked"]
              /\ UNCHANGED msgs
    /\ UNCHANGED channel
    /\ RunFrame

\* A sleep that returns at once.
RunSleepUntil_no_wait ==
    /\ mainloop.pc = "sleep"
    /\ mainloop' = StartIteration(mainloop)
    /\ UNCHANGED <<channel, msgs>>
    /\ RunFrame

\* sleep_until(least_wait_until).await (line 438) returns when the instant
\* has come, and the next iteration starts.
RunSleepUntil ==
    /\ mainloop.pc = "sleep"
    /\ mainloop.elapsed >= LoopPeriod
    /\ mainloop' = StartIteration(mainloop)
    /\ UNCHANGED <<channel, msgs>>
    /\ RunFrame

\* 100 ms pass.
RunTick ==
    /\ mainloop.pc \notin {"register", "panicked"}
    /\ mainloop.elapsed < MaxElapsed
    /\ mainloop' = [mainloop EXCEPT !.elapsed = @ + 1]
    /\ UNCHANGED <<channel, msgs>>
    /\ RunFrame

NextRun ==
    \/ RunSend
    \/ RunRegister
    \/ RunFetchCoins
    \/ RunTryRecv
    \/ RunHandlerEnd
    \/ RunSleepUntil
    \/ RunTick

(***************************************************************************)
(* Specifications, one per component.                                      *)
(***************************************************************************)
InitOfTx == InitTx /\ RestCache /\ InitBackup /\ RestConfig /\ InitGateway /\ InitAdmin /\ InitWait /\ RestStatus /\ InitConnect /\ InitRun
SpecTx == InitOfTx /\ [][NextTx]_vars

InitOfCache == InitCache /\ InitTx /\ InitBackup /\ RestConfig /\ InitGateway /\ InitAdmin /\ InitWait /\ RestStatus /\ InitConnect /\ InitRun
SpecCache == InitOfCache /\ [][NextCache]_vars

InitOfBackup == InitBackup /\ InitTx /\ RestCache /\ RestConfig /\ InitGateway /\ InitAdmin /\ InitWait /\ RestStatus /\ InitConnect /\ InitRun
SpecBackup == InitOfBackup /\ [][NextBackup]_vars

InitOfConfig == InitConfig /\ InitTx /\ RestCache /\ InitBackup /\ InitGateway /\ InitAdmin /\ InitWait /\ RestStatus /\ InitConnect /\ InitRun
SpecConfig == InitOfConfig /\ [][NextConfig]_vars

InitOfGateway == InitGateway /\ InitTx /\ RestCache /\ InitBackup /\ RestConfig /\ InitAdmin /\ InitWait /\ RestStatus /\ InitConnect /\ InitRun
SpecGateway == InitOfGateway /\ [][NextGateway]_vars

InitOfAdmin == InitAdmin /\ InitTx /\ RestCache /\ InitBackup /\ RestConfig /\ InitGateway /\ InitWait /\ RestStatus /\ InitConnect /\ InitRun
SpecAdmin == InitOfAdmin /\ [][NextAdmin]_vars

\* A call suspended in wait_key_check is resumed once the key is there.
InitOfWait == InitWait /\ InitTx /\ RestCache /\ InitBackup /\ RestConfig /\ InitGateway /\ InitAdmin /\ RestStatus /\ InitConnect /\ InitRun
SpecWait == InitOfWait /\ [][NextWait]_vars /\ \A w \in Waiters : WF_vars(WaitReturn(w))

InitOfStatus == InitStatus /\ InitTx /\ RestCache /\ InitBackup /\ RestConfig /\ InitGateway /\ InitAdmin /\ InitWait /\ InitConnect /\ InitRun
SpecStatus == InitOfStatus /\ [][NextStatus]_vars

\* The connect attempt and the sleep of a call both return, and the task
\* running the call is scheduled.
InitOfConnect == InitConnect /\ InitTx /\ RestCache /\ InitBackup /\ RestConfig /\ InitGateway /\ InitAdmin /\ InitWait /\ RestStatus /\ InitRun
SpecConnect ==
    /\ InitOfConnect
    /\ [][NextConnect]_vars
    /\ \A c \in Connects : WF_vars(ConnectStep(c))

\* The calls the loop awaits return, the task is scheduled and time passes.
InitOfRun == InitRun /\ InitTx /\ RestCache /\ InitBackup /\ RestConfig /\ InitGateway /\ InitAdmin /\ InitWait /\ RestStatus /\ InitConnect
SpecRun ==
    /\ InitOfRun
    /\ [][NextRun]_vars
    /\ WF_vars(RunFetchCoins)
    /\ WF_vars(RunTryRecv)
    /\ WF_vars(RunHandlerEnd)
    /\ WF_vars(RunSleepUntil)
    /\ WF_vars(RunTick)

(***************************************************************************)
(* Properties of the admission pipeline.                                   *)
(***************************************************************************)
RECURSIVE SumAmounts(_)
SumAmounts(items) ==
    IF items = <<>> THEN 0 ELSE Head(items).amount + SumAmounts(Tail(items))

\* Every check of section 4.1 succeeds for tx in the database view.
AllChecksPass(tx, view) ==
    /\ \A i \in DOMAIN tx.inputs : validate_input(view, tx.inputs[i]).ok
    /\ validate_signature(tx)
    /\ \A i \in DOMAIN tx.outputs : validate_output(view, tx.outputs[i]).ok
    /\ SumAmounts(tx.inputs) >= SumAmounts(tx.outputs)

SentBy(c) == { k \in DOMAIN sent_log : sent_log[k].call = c }

SubmitErrors == {"InputError", "SignatureError", "OutputError", "FundingError"}

\* C1: every Transaction(tx) put on the admission channel comes from a call
\* whose input validations, signature check and output validations all
\* succeeded in its database view and whose inputs fund its outputs; a call
\* whose checks fail returns the error and sends nothing.
C1_AdmittedOnlyIfValid ==
    /\ \A k \in DOMAIN sent_log :
         LET call == sub[sent_log[k].call]
         IN /\ call.tx = sent_log[k].tx
            /\ AllChecksPass(TxTable[call.tx], call.view)
    /\ \A k \in DOMAIN api_sender :
         \E j \in DOMAIN sent_log : sent_log[j].tx = api_sender[k].tx
    /\ \A c \in Calls :
         (/\ sub[c].pc \in {"send", "done"}
          /\ sub[c].log # <<>>
          /\ ~AllChecksPass(TxTable[sub[c].tx], sub[c].view))
         => /\ sub[c].pc = "done"
            /\ sub[c].result \in SubmitErrors
            /\ SentBy(c) = {}

\* A valid transaction was admitted and an underfunded one was turned away.
C1_Witness ==
    /\ sent_log # <<>>
    /\ \E c \in Calls : sub[c].pc = "done" /\ sub[c].result = "FundingError"

\* C2 as stated: a transaction is sent on the admission channel at most once,
\* whatever the sequence of submit_transaction calls.
C2_AtMostOnce ==
    \A j, k \in DOMAIN sent_log : sent_log[j].tx = sent_log[k].tx => j = k

\* C2, amended: every call sends its transaction at most once, and when one
\* transaction is sent twice the sends come from two calls that both ran the
\* already-processed check before the accepted record was written.
C2_AtMostOncePerCall ==
    /\ \A c \in Calls : Cardinality(SentBy(c)) <= 1
    /\ \A j, k \in DOMAIN sent_log :
         (j # k /\ sent_log[j].tx = sent_log[k].tx)
         => /\ sent_log[j].call # sent_log[k].call
            /\ ~sub[sent_log[j].call].committed_at_call
            /\ ~sub[sent_log[k].call].committed_at_call

\* The same transaction was sent by two calls.
C2_Witness ==
    \E j, k \in DOMAIN sent_log : j # k /\ sent_log[j].tx = sent_log[k].tx

\* C3: a call made when the accepted record of its transaction exists returns
\* ok, runs no validate_input, validate_output, signature or funding check
\* and sends nothing.
C3_CommittedIsIdempotent ==
    \A c \in Calls :
        sub[c].committed_at_call
        => /\ sub[c].pc = "done"
           /\ sub[c].result = "Ok"
           /\ sub[c].log = <<>>
           /\ SentBy(c) = {}

\* A transaction was committed and then submitted again.
C3_Witness ==
    \E c \in Calls : sub[c].committed_at_call /\ sub[c].tx \in accepted

(***************************************************************************)
(* Properties of the expiring cache.                                       *)
(***************************************************************************)
Producing == { g \in Getters : getter[g].pc = "producing" }

\* C4 as stated: at most one producer invocation is in progress, and a call
\* that arrives during a refresh returns the value of that refresh without
\* invoking its own producer.
C4_SingleFlight ==
    /\ Cardinality(Producing) <= 1
    /\ \A g \in Getters :
         getter[g].awaiting # 0
         => /\ getter[g].invoked = 0
            /\ getter[g].pc = "done" => getter[g].result.value.n = getter[g].awaiting

\* C4, amended: at most one producer invocation is in progress; a call that
\* arrives during a refresh never returns a value older than that refresh,
\* and it invokes its own producer only after that refresh has completed and
\* only when at least `duration` has passed since the refresh was stamped.
C4_SingleFlightUnlessExpired ==
    /\ Cardinality(Producing) <= 1
    /\ \A g \in Getters :
         getter[g].awaiting # 0
         => /\ getter[g].pc = "done" => getter[g].result.value.n >= getter[g].awaiting
            /\ getter[g].invoked # 0
               => /\ prod_log[getter[g].awaiting].stamped # -1
                  /\ prod_log[getter[g].invoked].started
                       >= prod_log[getter[g].awaiting].stamped + duration

\* A call that arrived during a refresh returned the value of that refresh.
C4_Witness ==
    \E g \in Getters :
        /\ getter[g].awaiting # 0
        /\ getter[g].pc = "done"
        /\ getter[g].invoked = 0
        /\ getter[g].result.value.n = getter[g].awaiting

Completed == { i \in DOMAIN prod_log : prod_log[i].stamped # -1 }

TimestampOf(snapshot) == IF is_some(snapshot) THEN snapshot.value.timestamp ELSE -1

\* C7: for every backup id the timestamps returned by successive recover
\* calls never decrease, and every accepted backup strictly increases the
\* stored timestamp, also when concurrent requests read the same previous
\* record.
C7_BackupMonotonic ==
    [][\A id \in BackupIds :
         /\ (recovered[id].called /\ recovered'[id].called)
            => TimestampOf(recovered'[id].snapshot) >= TimestampOf(recovered[id].snapshot)
         /\ backup_db'[id] # backup_db[id]
            => TimestampOf(backup_db'[id]) > TimestampOf(backup_db[id])]_vars

\* Two concurrent requests for one id read the same previous record, one of
\* them was stored, and the latest recover returns a stored backup.
C7_Witness ==
    \E id \in BackupIds, r1, r2 \in BackupReqs :
        /\ r1 # r2
        /\ breq[r1].id = id /\ breq[r2].id = id
        /\ breq[r1].pc = "done" /\ breq[r2].pc = "done"
        /\ breq[r1].result = "Ok" /\ breq[r2].result = "CommitError"
        /\ breq[r1].base_ver = breq[r2].base_ver
        /\ recovered[id].called
        /\ recovered[id].snapshot = backup_db[id]
        /\ is_some(backup_db[id])

(***************************************************************************)
(* Properties of the client config download gate.                          *)
(***************************************************************************)
\* Requests that were answered with the client config.
Served == { r \in DownloadReqs : dreq[r].pc = "done" /\ dreq[r].result = "Ok" }

\* C8: with a download limit L configured, the number of requests that are
\* answered with the client config never exceeds L, whatever the
\* interleaving of the requests.
C8_NoOversupply ==
    is_some(download_token_limit)
    => Cardinality(Served) <= download_token_limit.value

\* Two requests read the same count one short of the limit; one was served,
\* the other was not, and the limit is used up.
C8_Witness ==
    /\ is_some(download_token_limit)
    /\ Cardinality(Served) = download_token_limit.value
    /\ \E r1, r2 \in DownloadReqs :
         /\ r1 \in Served
         /\ dreq[r2].pc = "done"
         /\ dreq[r2].result = "CommitError"
         /\ dreq[r1].snapshot = dreq[r2].snapshot
         /\ unwrap_or_default(dreq[r1].snapshot) + 1 = download_token_limit.value

\* C9: when the requests come one after the other, the first L requests
\* with the matching token are answered with the config and every later one
\* with 'Download token used too many times'; with no limit configured every
\* request with the matching token is answered with the config.
C9_SequentialLimit ==
    ~overlapped
    => \A r \in DownloadReqs :
         (dreq[r].pc = "done" /\ dreq[r].info = "token")
         => dreq[r].result =
              IF is_some(download_token_limit)
                 /\ dreq[r].ordinal > download_token_limit.value
              THEN "Download token used too many times"
              ELSE "Ok"

\* Limit 2 and three requests in sequence: served, served, turned away.
C9_Witness ==
    /\ ~overlapped
    /\ download_token_limit = Some(2)
    /\ \A r \in DownloadReqs : dreq[r].pc = "done" /\ dreq[r].info = "token"
    /\ Cardinality(Served) = 2
    /\ \E r \in DownloadReqs :
         /\ dreq[r].ordinal = 3
         /\ dreq[r].result = "Download token used too many times"

(***************************************************************************)
(* Properties of the outgoing payment state machine.                       *)
(***************************************************************************)
WasCalled(name) == \E k \in DOMAIN gw.calls : gw.calls[k] = name

PayInvoiceFailed == gw.kind = "pay" /\ is_some(gw.pay_result) /\ ~gw.pay_result.value.ok

\* C10 as stated: whenever pay_invoice fails, at whatever step,
\* abort_outgoing_payment was called before it returned.
C10_AbortOnAnyFailure ==
    PayInvoiceFailed => WasCalled("abort_outgoing_payment")

PreimageSteps == {"buy_preimage_offer", "await_preimage_decryption", "ln_pay"}

\* What pay_invoice does: when it fails, abort_outgoing_payment was called
\* before it returned exactly when the step that failed was the acquisition
\* of the preimage (internal or external); a failed fetch, validation or
\* claim returns without the abort call, and a claim is never followed by an
\* abort.
AbortOnlyOnPreimageFailure ==
    /\ PayInvoiceFailed
       => (WasCalled("abort_outgoing_payment") <=> gw.failed \in PreimageSteps)
    /\ PayInvoiceFailed
       => gw.failed \in PreimageSteps
            \cup {"fetch_outgoing_contract", "validate_outgoing_account",
                  "claim_outgoing_contract"}
    /\ ~(WasCalled("claim_outgoing_contract") /\ WasCalled("abort_outgoing_payment"))

\* pay_invoice failed on the Lightning payment and the contract was aborted.
AbortedAfterFailedPayment ==
    /\ PayInvoiceFailed
    /\ gw.failed = "ln_pay"
    /\ WasCalled("abort_outgoing_payment")

\* The error pay_invoice started to fail with: the error of the preimage
\* acquisition when that failed, else the error of the call that failed.
OriginalError ==
    IF is_some(gw.preimage_res) /\ ~gw.preimage_res.value.ok
    THEN gw.preimage_res.value.err
    ELSE gw.failed

\* C11 as stated: whenever pay_invoice fails, it returns the original error
\* of the step that failed, also when the abort call itself fails.
C11_OriginalErrorReturned ==
    PayInvoiceFailed => gw.pay_result.value.err = OriginalError

\* What pay_invoice does: the original error is returned unless the abort
\* call was made and failed, in which case the abort's error is returned.
OriginalErrorUnlessAbortFails ==
    PayInvoiceFailed
    => \/ gw.pay_result.value.err = OriginalError
       \/ /\ WasCalled("abort_outgoing_payment")
          /\ gw.pay_result.value.err = "abort_outgoing_payment"

(***************************************************************************)
(* Properties of the auth-gated endpoints.                                 *)
(***************************************************************************)
AdminSentBy(r) == { k \in DOMAIN admin_log : admin_log[k].req = r }

\* C12: a request to an auth-gated endpoint whose token is absent or differs
\* from api_auth returns unauthorized and puts nothing on the admission
\* channel; an upgrade request with the matching token makes exactly one
\* send, of an UpgradeSignal, which is on the channel when the request
\* returns Ok.
C12_AuthGate ==
    \A r \in AdminReqs :
      areq[r].pc # "idle" =>
        /\ areq[r].auth # Some(ApiAuth)
           => /\ areq[r].pc = "done"
              /\ areq[r].result = "unauthorized"
              /\ areq[r].sends = 0
              /\ AdminSentBy(r) = {}
        /\ (areq[r].auth = Some(ApiAuth) /\ areq[r].endpoint = "upgrade"
              /\ areq[r].pc = "done")
           => /\ areq[r].sends = 1
              /\ \A k \in AdminSentBy(r) : admin_log[k].type = "UpgradeSignal"
              /\ Cardinality(AdminSentBy(r)) =
                   IF areq[r].result = "Ok" THEN 1 ELSE 0

\* One request with a wrong token was turned away and an upgrade request
\* with the right token has put its UpgradeSignal on the channel.
C12_Witness ==
    \E r1, r2 \in AdminReqs :
      /\ areq[r1].pc = "done" /\ areq[r1].auth = Some("other")
      /\ areq[r1].result = "unauthorized"
      /\ areq[r2].pc = "done" /\ areq[r2].endpoint = "upgrade"
      /\ areq[r2].result = "Ok"
      /\ Cardinality(AdminSentBy(r2)) = 1

(***************************************************************************)
(* Properties of wait_transaction_status.                                  *)
(***************************************************************************)
\* A call returns only from a state in which the record of its txid exists.
ReturnsOnlyWithRecord ==
    \A w \in Waiters :
      (wreq[w].pc = "waiting" /\ wreq'[w].pc = "done") => wreq[w].txid \in accepted

\* The status a call returned was composed from a snapshot holding the record.
ReturnedFromSnapshotWithRecord ==
    \A w \in Waiters :
      (wreq[w].pc = "done" /\ wreq[w].op = "wait")
      => /\ wreq[w].txid \in wreq[w].view
         /\ wreq[w].result = transaction_status(wreq[w].txid, wreq[w].view)

\* C13: wait_transaction_status(txid) never returns while the accepted
\* record of txid is absent, and once the record is written the call
\* eventually returns a status composed from a snapshot that holds the record.
C13_WaitUntilAccepted ==
    /\ [][ReturnsOnlyWithRecord]_vars
    /\ []ReturnedFromSnapshotWithRecord
    /\ \A w \in Waiters :
         (wreq[w].pc = "waiting" /\ wreq[w].txid \in accepted)
           ~> (wreq[w].pc = "done" /\ wreq[w].txid \in wreq[w].view)

\* A call that started waiting before the record existed has returned.
C13_Witness ==
    \E w \in Waiters :
      /\ wreq[w].pc = "done"
      /\ wreq[w].op = "wait"
      /\ wreq[w].absent_at_call
      /\ is_some(wreq[w].result)

\* C14: transaction_status(txid) returns none exactly when there is no
\* accepted record for txid in its database view; otherwise it returns an
\* Accepted status with epoch 0 and one outcome per entry of the record, the
\* i-th taken from the i-th recorded module for OutPoint{txid, out_idx = i},
\* counting from 0.
C14_StatusFromRecord ==
    \A w \in Waiters :
      (wreq[w].pc = "done" /\ wreq[w].op = "status")
      => LET txid == wreq[w].txid
             record == AcceptedRecord(txid)
             status == wreq[w].result
         IN /\ ~is_some(status) <=> txid \notin wreq[w].view
            /\ is_some(status)
               => /\ status.value.epoch = 0
                  /\ Len(status.value.outputs) = Len(record)
                  /\ \A i \in 0..(Len(record) - 1) :
                       /\ status.value.outputs[i + 1].module = record[i + 1]
                       /\ status.value.outputs[i + 1].txid = txid
                       /\ status.value.outputs[i + 1].out_idx = i

\* transaction_status was asked for a committed transaction with two outputs
\* and, by another call, for one without a record.
C14_Witness ==
    /\ \E w \in Waiters :
         /\ wreq[w].pc = "done" /\ wreq[w].op = "status"
         /\ is_some(wreq[w].result)
         /\ Len(wreq[w].result.value.outputs) = 2
    /\ accepted # {}

\* transaction_status found no record.
StatusNoneReached ==
    \E w \in Waiters :
      /\ wreq[w].pc = "done" /\ wreq[w].op = "status"
      /\ ~is_some(wreq[w].result)

(***************************************************************************)
(* Properties of calculate_consensus_status.                               *)
(***************************************************************************)
StatusCalculated == is_some(status_out)

\* A contribution whose age is within the grace duration.
RecentContribution(p) ==
    /\ p \in DOMAIN status_in.latest_contribution_by_peer
    /\ elapsed(status_in.latest_contribution_by_peer[p].time)
         <= status_in.max_duration_for_recent_contribution

ReportedConnected(p) ==
    /\ p \in DOMAIN status_in.peers_connection_status
    /\ status_in.peers_connection_status[p] = "Connected"

\* C15: in the output of calculate_consensus_status a flagged peer is never
\* both Connected and the holder of a recent contribution.
C15_FlaggedNotHealthy ==
    StatusCalculated
    => \A p \in DOMAIN status_out.value.status_by_peer :
         status_out.value.status_by_peer[p].flagged
         => ~(ReportedConnected(p) /\ RecentContribution(p))

\* A connected peer that is behind us with a stale contribution is flagged,
\* and a connected peer that is behind us with a recent one is not.
C15_Witness ==
    /\ StatusCalculated
    /\ \E p, q \in DOMAIN status_out.value.status_by_peer :
         /\ status_out.value.status_by_peer[p].flagged
         /\ ReportedConnected(p) /\ ~RecentContribution(p)
         /\ ~status_out.value.status_by_peer[q].flagged
         /\ ReportedConnected(q) /\ RecentContribution(q)
         /\ status_in.latest_contribution_by_peer[q].value
              < status_in.our_last_contribution

\* The inputs of tests::test_server_status_some_issues_flagged, with both
\* contributions observed at the instant of the calculation.
SomeIssuesAtThisInstant ==
    [latest_contribution_by_peer |->
         (0 :> [value |-> 2, time |-> MaxAge]) @@ (1 :> [value |-> 3, time |-> MaxAge]),
     our_last_contribution |-> 3,
     peers_connection_status |-> (0 :> "Connected") @@ (1 :> "Disconnected"),
     max_duration_for_recent_contribution |-> 0]

BehindUs(p) ==
    /\ p \in DOMAIN status_in.latest_contribution_by_peer
    /\ status_in.latest_contribution_by_peer[p].value < status_in.our_last_contribution

\* C16 as stated: with grace 0 a peer that is behind us, or that is not
\* connected, is flagged also when its contribution was observed at the very
\* instant of the calculation; the test inputs give online 1, offline 1,
\* flagged 2.
C16_ZeroGraceFlagsAll ==
    (StatusCalculated /\ status_in.max_duration_for_recent_contribution = 0)
    => /\ \A p \in DOMAIN status_out.value.status_by_peer :
            (BehindUs(p) \/ ~ReportedConnected(p))
            => status_out.value.status_by_peer[p].flagged
       /\ status_in = SomeIssuesAtThisInstant
          => /\ status_out.value.peers_online = 1
             /\ status_out.value.peers_offline = 1
             /\ status_out.value.peers_flagged = 2

\* What the code does: with grace 0 a peer that is behind us, or that is not
\* connected, is flagged unless its contribution has age 0.
ZeroGraceFlagsUnlessAgeZero ==
    (StatusCalculated /\ status_in.max_duration_for_recent_contribution = 0)
    => \A p \in DOMAIN status_out.value.status_by_peer :
         ((BehindUs(p) \/ ~ReportedConnected(p)) /\ ~RecentContribution(p))
         => status_out.value.status_by_peer[p].flagged

\* What the code returns for the test inputs at age 0: nobody is flagged.
SomeIssuesAtThisInstantFlagsNone ==
    (StatusCalculated /\ status_in = SomeIssuesAtThisInstant)
    => /\ status_out.value.peers_online = 1
       /\ status_out.value.peers_offline = 1
       /\ status_out.value.peers_flagged = 0

SomeIssuesAtThisInstantCalculated ==
    StatusCalculated /\ status_in = SomeIssuesAtThisInstant

FlaggedPeers ==
    { p \in DOMAIN status_out.value.status_by_peer :
        status_out.value.status_by_peer[p].flagged }

\* C17: peers_online + peers_offline is the number of entries of
\* status_by_peer, which is the size of the union of the peers of the
\* contribution map and of the connection map; peers_flagged is the number
\* of flagged entries.
C17_CountsAddUp ==
    StatusCalculated
    => /\ status_out.value.peers_online + status_out.value.peers_offline
            = Cardinality(DOMAIN status_out.value.status_by_peer)
       /\ Cardinality(DOMAIN status_out.value.status_by_peer)
            = Cardinality((DOMAIN status_in.latest_contribution_by_peer)
                            \cup (DOMAIN status_in.peers_connection_status))
       /\ status_out.value.peers_flagged = Cardinality(FlaggedPeers)

\* One peer is known from its contribution only, another from its connection
\* status only; one of the two is flagged and one is online.
C17_Witness ==
    /\ StatusCalculated
    /\ (DOMAIN status_in.latest_contribution_by_peer)
         \cap (DOMAIN status_in.peers_connection_status) = {}
    /\ Cardinality(DOMAIN status_out.value.status_by_peer) = 2
    /\ status_out.value.peers_online = 1
    /\ status_out.value.peers_offline = 1
    /\ status_out.value.peers_flagged = 1

(***************************************************************************)
(* Properties of the gateway main loop.                                    *)
(***************************************************************************)
\* Requests are numbered in the order they were put on the channel.  The
\* requests before the one dequeued last have their reply sent, the ones
\* after it wait on the channel in the order sent, untouched.
OneAtATime ==
    /\ receiver = [k \in 1..(Len(requests) - cur) |-> cur + k]
    /\ \A id \in DOMAIN requests :
         /\ id < cur => requests[id].sent = 1
         /\ id > cur => requests[id].sent = 0

\* A request is dequeued only in channel order and only after the handler of
\* the previous one returned and its reply was sent.
DequeueInOrder ==
    cur' # cur
    => /\ cur' = cur + 1
       /\ cur > 0 => (gw.pc = "done" /\ requests[cur].sent = 1)

\* C18: the gateway main loop handles queued requests one at a time in FIFO
\* order: they are dequeued in the order they were enqueued, and the handler
\* of a request has completed and its reply has been sent before the next
\* request is dequeued.
C18_FifoOneAtATime ==
    /\ []OneAtATime
    /\ [][DequeueInOrder]_vars

\* Two requests were sent and both were handled and answered in turn.
C18_Witness ==
    /\ Len(requests) = 2
    /\ cur = 2
    /\ gw.pc = "done"
    /\ requests[1].sent = 1
    /\ requests[2].sent = 1

\* The handler of request id has ended, by returning or by panicking.
HandlerEnded(id) == id < cur \/ (id = cur /\ gw.pc \in {"done", "panicked"})

\* C19 as stated: every request the loop dequeues is handled to completion
\* and its result is sent exactly once on its reply channel; when the
\* requester dropped the channel the failed send is only logged, and the
\* loop goes on.
C19_EveryDequeuedAnswered ==
    /\ gw.pc # "panicked"
    /\ \A id \in DOMAIN requests :
         /\ requests[id].sent <= 1
         /\ HandlerEnded(id)
            => /\ requests[id].sent = 1
               /\ requests[id].delivered + requests[id].hung_up = 1
               /\ requests[id].reply_open <=> requests[id].delivered = 1

\* What the loop does: a handler that returned had its result sent exactly
\* once, delivered or logged; a withdraw handler that panicked sent nothing.
AnsweredUnlessPanicked ==
    \A id \in DOMAIN requests :
      /\ requests[id].sent <= 1
      /\ (HandlerEnded(id) /\ ~(id = cur /\ gw.pc = "panicked"))
         => /\ requests[id].sent = 1
            /\ requests[id].delivered + requests[id].hung_up = 1
            /\ requests[id].reply_open <=> requests[id].delivered = 1
      /\ (id = cur /\ gw.pc = "panicked")
         => /\ requests[id].kind = "withdraw"
            /\ requests[id].sent = 0

\* A reply went to a requester that had hung up, and the loop handled the
\* next request.
HungUpThenNext ==
    /\ Len(requests) = 2
    /\ requests[1].hung_up = 1
    /\ requests[2].delivered = 1

(***************************************************************************)
(* Properties of the Lightning RPC connection loop.                        *)
(***************************************************************************)
\* connect makes at most MAX_LIGHTNING_RETRIES attempts, has slept once for
\* every failed attempt before the next one, returns the client on the first
\* attempt that succeeds and the hard error once all attempts have failed.
ConnectBounded ==
    \A c \in Connects :
      /\ lnrpc[c].retries <= MAX_LIGHTNING_RETRIES
      /\ lnrpc[c].connects <= lnrpc[c].retries
      /\ lnrpc[c].pc = "loop" => lnrpc[c].slept = lnrpc[c].failed
      /\ lnrpc[c].pc = "done"
         => IF lnrpc[c].result.value.ok
            THEN /\ lnrpc[c].failed = lnrpc[c].retries - 1
                 /\ lnrpc[c].slept = lnrpc[c].failed
            ELSE /\ lnrpc[c].result.value.err = "Failed to connect to CLN"
                 /\ lnrpc[c].retries = MAX_LIGHTNING_RETRIES
                 /\ lnrpc[c].failed = MAX_LIGHTNING_RETRIES
                 /\ lnrpc[c].slept = MAX_LIGHTNING_RETRIES

\* C20: connecting to the Lightning RPC always terminates: it returns the
\* client on the first successful attempt, makes at most 10 attempts with a
\* one-second wait after each failed one, and returns the hard error
\* 'Failed to connect to CLN' once 10 attempts have failed.
C20_ConnectTerminates ==
    /\ []ConnectBounded
    /\ \A c \in Connects : (lnrpc[c].pc # "idle") ~> (lnrpc[c].pc = "done")

\* One call gave up after ten failed attempts, another got its client on a
\* later attempt than the first.
C20_Witness ==
    \E c1, c2 \in Connects :
      /\ lnrpc[c1].pc = "done" /\ ~lnrpc[c1].result.value.ok
      /\ lnrpc[c1].connects = MAX_LIGHTNING_RETRIES
      /\ lnrpc[c2].pc = "done" /\ lnrpc[c2].result.value.ok
      /\ lnrpc[c2].failed > 0

(***************************************************************************)
(* Properties of the error mapping of the admission endpoints.             *)
(***************************************************************************)
\* C21: a send on the closed admission channel is reported by the
\* "transaction" endpoint as a server error, and a module validation error,
\* a signature failure and a funding shortfall as a bad request.
C21_SendFailureIsServerError ==
    \A c \in Calls :
        sub[c].pc = "done"
        => /\ sub[c].result = "SendError" => sub[c].reply = "server_error"
           /\ sub[c].result \in SubmitErrors => sub[c].reply = "bad_request"

\* Every error of submit_transaction, the failed send included, is a bad
\* request of the "transaction" endpoint.
TransactionErrorsAreBadRequests ==
    \A c \in Calls :
        sub[c].pc = "done"
        => /\ sub[c].result \in SubmitErrors \cup {"SendError"}
              => sub[c].reply = "bad_request"
           /\ sub[c].result = "Ok" => sub[c].reply = "Ok"

\* A call whose send failed has returned.
TransactionSendFailed ==
    \E c \in Calls : sub[c].pc = "done" /\ sub[c].result = "SendError"

\* On the upgrade and process_outcome endpoints a failed send is a server
\* error.
AdminSendFailureIsServerError ==
    \A r \in AdminReqs :
        (areq[r].pc = "done" /\ areq[r].sends = 1 /\ AdminSentBy(r) = {})
        => areq[r].result = "server_error"

\* A send of an admin endpoint failed.
AdminSendFailed ==
    \E r \in AdminReqs :
        areq[r].pc = "done" /\ areq[r].sends = 1 /\ AdminSentBy(r) = {}

(***************************************************************************)
(* Properties of the backup endpoint's answers.                            *)
(***************************************************************************)
Handled(r) == breq[r].pc # "idle"

\* The request's timestamp is not above the one of the record its handler
\* read.
Stale(r) ==
    breq[r].prev \in {"below", "equal"}

\* The answer of every handled request.
BackupAnswers ==
    \A r \in BackupReqs :
        Handled(r)
        => /\ ~breq[r].sig_valid
              => breq[r].pc = "done" /\ breq[r].result = "invalid request"
           /\ (breq[r].sig_valid /\ Stale(r))
              => breq[r].pc = "done" /\ breq[r].result = "timestamp too small"
           /\ (breq[r].sig_valid /\ ~Stale(r))
              => \/ /\ breq[r].pc = "commit"
                    /\ is_some(breq[r].write)
                    /\ breq[r].write.value.data = r
                 \/ /\ breq[r].pc = "done"
                    /\ breq[r].result \in {"Ok", "CommitError"}

\* A step in which request r is rejected by the handler.
RejectedNow(r) ==
    /\ breq[r].pc = "idle"
    /\ breq'[r].result \in {"invalid request", "timestamp too small"}

\* A step in which the write of request r is committed.
StoredNow(r) ==
    /\ breq[r].pc = "commit"
    /\ breq'[r].result = "Ok"
    /\ breq'[r].pc = "done"

\* A rejection leaves every stored record as it was, and after the commit
\* of an accepted request the record of its id carries its payload.
BackupEffects ==
    \A r \in BackupReqs :
        /\ RejectedNow(r) => backup_db' = backup_db
        /\ StoredNow(r)
           => /\ handle_recover_request(backup_db', breq[r].id) = breq[r].write
              /\ breq[r].write.value.data = r
        /\ backup_db' # backup_db => \E q \in BackupReqs : StoredNow(q)

\* C22: a backup request with an invalid signature is rejected with
\* 'invalid request'; one with a valid signature whose timestamp is not
\* above the stored record's is rejected with 'timestamp too small'; a
\* rejection leaves the stored record unchanged; a request with a valid
\* signature and a greater timestamp, or no stored record, replaces the
\* record, so that recover returns its payload.
C22_BackupRejections ==
    /\ []BackupAnswers
    /\ [][BackupEffects]_vars

\* Over an existing record one request was rejected for its signature, one
\* for its timestamp, and recover returned the payload of the request that
\* replaced the record.
C22_Witness ==
    \E r1, r2, r3 \in BackupReqs :
        /\ breq[r1].result = "invalid request" /\ breq[r1].prev = "above"
        /\ breq[r2].result = "timestamp too small"
        /\ breq[r3].pc = "done" /\ breq[r3].result = "Ok"
        /\ recovered[breq[r3].id].called
        /\ is_some(recovered[breq[r3].id].snapshot)
        /\ recovered[breq[r3].id].snapshot.value.data = r3

(***************************************************************************)
(* Properties of ExpiringCache::get.                                       *)
(***************************************************************************)
\* A step in which call g, holding the lock, makes the test of the stored
\* value.
Tested(g) ==
    /\ getter[g].pc \in {"idle", "waiting"}
    /\ getter'[g].pc \in {"done", "producing"}

\* A value is stored and its age is strictly less than the duration.
Fresh == is_some(cache_data) /\ now - cache_data.value.time < duration

GetStep(g) ==
    /\ Tested(g)
       => /\ getter'[g].pc = "done" <=> Fresh
          /\ getter'[g].pc = "done"
             => /\ getter'[g].result = Some(cache_data.value.value)
                /\ getter'[g].invoked = 0
                /\ UNCHANGED <<cache_data, prod_log>>
          /\ getter'[g].pc = "producing"
             => /\ Len(prod_log') = Len(prod_log) + 1
                /\ getter'[g].invoked = Len(prod_log')
                /\ UNCHANGED cache_data
    /\ (getter[g].pc = "producing" /\ getter'[g].pc = "done")
       => /\ Len(prod_log') = Len(prod_log)
          /\ getter'[g].invoked = getter[g].invoked
          /\ getter'[g].result = Some(prod_log'[getter[g].invoked].value)
          /\ cache_data' = Some([value |-> getter'[g].result.value,
                                 time |-> now'])
          /\ now' = now

\* Every producer invocation belongs to one call.
OneInvocationEach ==
    \A i \in DOMAIN prod_log :
        Cardinality({ g \in Getters : getter[g].invoked = i }) = 1

\* C23: get returns the stored value without invoking the producer exactly
\* when a value is stored and its age is strictly less than the duration;
\* otherwise it invokes the producer once, stores the result stamped with
\* the instant at which the producer completed, and returns it.
C23_HitExactlyWhenFresh ==
    /\ []OneInvocationEach
    /\ [][\A g \in Getters : GetStep(g)]_vars

\* The test of lines 738-764: with a duration of 1 the first read produces
\* 1, the read that follows at once returns 1 from the cache, and a read 2
\* later produces 2.
C23_Witness ==
    /\ duration = 1
    /\ \E g1, g2, g3 \in Getters :
         /\ getter[g1].pc = "done" /\ getter[g1].invoked = 1
         /\ getter[g1].result = Some(Produced(TRUE, 1))
         /\ prod_log[1].stamped = 0
         /\ getter[g2].pc = "done" /\ getter[g2].invoked = 0
         /\ getter[g2].result = Some(Produced(TRUE, 1))
         /\ getter[g3].pc = "done" /\ getter[g3].invoked = 2
         /\ getter[g3].result = Some(Produced(TRUE, 2))
         /\ prod_log[2].started = 2

(***************************************************************************)
(* Properties of submit_transaction's effect on the database.              *)
(***************************************************************************)
\* A step of call c.
StepOf(c) == sub'[c] # sub[c]

\* C24: no step of a submit_transaction call writes to the database,
\* whether the call returns because the transaction is already committed,
\* with a validation, signature or funding error, with the error of the
\* closed channel, or after its send; the accepted records change only when
\* the consensus side processes an event.
C24_SubmitWritesNothing ==
    [][/\ \A c \in Calls : StepOf(c) => accepted' = accepted
       /\ accepted' # accepted => /\ api_sender # <<>>
                                  /\ api_sender' = Tail(api_sender)
                                  /\ sub' = sub]_vars

\* With a record in the database, one call has returned with an error and
\* the other after its send.
C24_Witness ==
    /\ accepted # {}
    /\ \E c1, c2 \in Calls :
         /\ sub[c1].pc = "done" /\ sub[c1].result \in SubmitErrors \cup {"SendError"}
         /\ sub[c2].pc = "done" /\ sub[c2].result = "Ok" /\ SentBy(c2) # {}

(***************************************************************************)
(* Properties of a download with another token.                            *)
(***************************************************************************)
OtherToken(r) == dreq[r].info = "other token"

\* C25: download_client_config with a token that differs from the
\* configured one returns the bad request 'Download token not found' and no
\* config, and the request leaves the stored use count as it is, whatever
\* the count and the limit are.
C25_TokenMismatch ==
    /\ [](\A r \in DownloadReqs :
            (OtherToken(r) /\ dreq[r].pc \in {"finish", "done"})
            => /\ dreq[r].result = "Download token not found"
               /\ dreq[r].write = NoneOpt)
    /\ [][\A r \in DownloadReqs :
            (OtherToken(r) /\ dreq'[r] # dreq[r])
            => /\ download_count' = download_count
               /\ download_ver' = download_ver]_vars

\* A request with another token was refused when the count had reached the
\* configured limit, and one when no use was counted yet.
C25_Witness ==
    \E r1, r2 \in DownloadReqs :
        /\ OtherToken(r1) /\ dreq[r1].pc = "done"
        /\ dreq[r1].snapshot = NoneOpt
        /\ OtherToken(r2) /\ dreq[r2].pc = "done"
        /\ is_some(dreq[r2].snapshot) /\ is_some(download_token_limit)
        /\ dreq[r2].snapshot.value >= download_token_limit.value
        /\ download_count = dreq[r2].snapshot

(***************************************************************************)
(* Properties of the flag of one peer.                                     *)
(***************************************************************************)
HasContribution(p) == p \in DOMAIN status_in.latest_contribution_by_peer

\* The flag the claim gives peer p.
ExpectedFlag(p) ==
    IF ~HasContribution(p) THEN TRUE
    ELSE \/ BehindUs(p) /\ ~RecentContribution(p)
         \/ ~ReportedConnected(p) /\ ~RecentContribution(p)

\* C26: a peer without a contribution record is flagged, also when it is
\* Connected; a peer with one is flagged exactly when it is (behind and not
\* recent) or (not Connected and not recent), where behind is value <
\* our_last_contribution, recent is age <= grace, and a disconnected, failed
\* or missing connection status is not Connected; so a peer with a recent
\* contribution is never flagged.
C26_FlagFormula ==
    StatusCalculated
    => \A p \in DOMAIN status_out.value.status_by_peer :
         /\ status_out.value.status_by_peer[p].flagged = ExpectedFlag(p)
         /\ RecentContribution(p) => ~status_out.value.status_by_peer[p].flagged
         /\ status_out.value.status_by_peer[p].connection_status =
              IF ReportedConnected(p) THEN "Connected" ELSE "Disconnected"

\* A Connected peer without a contribution is flagged, and a peer whose
\* connection status failed, behind us with a recent contribution, is not.
C26_Witness ==
    /\ StatusCalculated
    /\ \E p, q \in DOMAIN status_out.value.status_by_peer :
         /\ ~HasContribution(p) /\ ReportedConnected(p)
         /\ status_out.value.status_by_peer[p].flagged
         /\ q \in DOMAIN status_in.peers_connection_status
         /\ status_in.peers_connection_status[q] = "Err"
         /\ BehindUs(q) /\ RecentContribution(q)
         /\ ~status_out.value.status_by_peer[q].flagged

(***************************************************************************)
(* Properties of the order of the checks of submit_transaction.            *)
(***************************************************************************)
\* The checks of a transaction in the order of the claim.
CheckOrder(tx) ==
    [i \in 1..Len(tx.inputs) |-> <<"validate_input", i>>]
    \o << <<"validate_signature", 0>> >>
    \o [i \in 1..Len(tx.outputs) |-> <<"validate_output", i>>]
    \o << <<"verify_funding", 0>> >>

\* Whether one check succeeds for tx in the view.
CheckPasses(tx, view, check) ==
    CASE check[1] = "validate_input" -> validate_input(view, tx.inputs[check[2]]).ok
      [] check[1] = "validate_signature" -> validate_signature(tx)
      [] check[1] = "validate_output" -> validate_output(view, tx.outputs[check[2]]).ok
      [] check[1] = "verify_funding" -> SumAmounts(tx.inputs) >= SumAmounts(tx.outputs)

ErrorOf(check) ==
    CASE check[1] = "validate_input" -> "InputError"
      [] check[1] = "validate_signature" -> "SignatureError"
      [] check[1] = "validate_output" -> "OutputError"
      [] check[1] = "verify_funding" -> "FundingError"

\* The call has run its checks.
Validated(c) == sub[c].pc \in {"send", "done"} /\ ~sub[c].committed_at_call

\* C27: within one submit_transaction call the checks run in the order
\* validate_input for every input in order, the signature check,
\* validate_output for every output in order, the funding check; the call
\* returns the error of the first check that fails, runs no later check
\* and sends nothing.
C27_ChecksInOrder ==
    \A c \in Calls :
        Validated(c)
        => LET tx == TxTable[sub[c].tx]
               order == CheckOrder(tx)
               log == sub[c].log
               n == Len(log)
           IN /\ n >= 1 /\ n <= Len(order)
              /\ \A k \in 1..n : log[k] = order[k]
              /\ \A k \in 1..(n - 1) : CheckPasses(tx, sub[c].view, log[k])
              /\ IF CheckPasses(tx, sub[c].view, log[n])
                 THEN /\ n = Len(order)
                      /\ sub[c].result \notin SubmitErrors
                 ELSE /\ sub[c].pc = "done"
                      /\ sub[c].result = ErrorOf(log[n])
                      /\ SentBy(c) = {}

\* One call stopped at the second input of a transaction whose signature,
\* output and funding are bad as well, another at the second output.
C27_Witness ==
    \E c1, c2 \in Calls :
        /\ sub[c1].pc = "done" /\ sub[c1].result = "InputError"
        /\ sub[c1].log = << <<"validate_input", 1>>, <<"validate_input", 2>> >>
        /\ ~validate_signature(TxTable[sub[c1].tx])
        /\ sub[c2].pc = "done" /\ sub[c2].result = "OutputError"
        /\ Len(sub[c2].log) = 4

(***************************************************************************)
(* Properties of the choice between the internal and the external path.    *)
(***************************************************************************)
CallCount(name) == Cardinality({ k \in DOMAIN gw.calls : gw.calls[k] = name })

\* pay_invoice has saved the payment and knows whether an offer exists.
PathChosen ==
    /\ gw.kind = "pay"
    /\ WasCalled("save_outgoing_payment")
    /\ gw.pc # "offer_exists"

\* A step of the chosen path has been made.
PathEntered == PathChosen /\ gw.pc \notin {"buy_offer", "pay_external"}

\* maybe_internal is set and the offer lookup returned true.
OfferFound == gw.maybe_internal /\ gw.offer_exists = "true"

\* C28: pay_invoice takes the internal path exactly when maybe_internal is
\* set and the offer lookup returns true; when maybe_internal is false, or
\* the lookup returns false or fails, it takes the external path and calls
\* the Lightning node's pay; every run takes exactly one of the two paths,
\* and pay is never called on the internal path.
C28_InternalIffOfferFound ==
    /\ gw.kind = "pay"
       => CallCount("buy_preimage_offer") + CallCount("ln_pay") <= 1
    /\ PathChosen
       => /\ gw.is_internal_payment <=> OfferFound
          /\ gw.pc = "buy_offer" => OfferFound
          /\ gw.pc = "pay_external" => ~OfferFound
    /\ PathEntered
       => /\ WasCalled("buy_preimage_offer") <=> OfferFound
          /\ WasCalled("ln_pay") <=> ~OfferFound
          /\ CallCount("buy_preimage_offer") + CallCount("ln_pay") = 1

\* The offer lookup of a payment that may be internal failed, and the
\* payment went through the Lightning node.
C28_Witness ==
    /\ PathEntered
    /\ gw.maybe_internal /\ gw.offer_exists = "error"
    /\ WasCalled("ln_pay")
    /\ is_some(gw.pay_result) /\ gw.pay_result.value.ok

\* A payment took the internal path to its end.
InternalPathTaken ==
    /\ PathEntered /\ OfferFound
    /\ WasCalled("await_preimage_decryption")
    /\ is_some(gw.pay_result) /\ gw.pay_result.value.ok

(***************************************************************************)
(* Properties of the internal preimage path.                               *)
(***************************************************************************)
\* buy_preimage_internal has returned, to pay_invoice or to the HTLC handler.
InternalReturned ==
    /\ gw.kind \in {"pay", "htlc"}
    /\ WasCalled("buy_preimage_offer")
    /\ is_some(gw.preimage_res)

DecryptionFailed == gw.failed = "await_preimage_decryption"

\* C29 as stated: on the internal preimage path, when the decryption fails
\* after the buy offer succeeded, a refund of the incoming contract is
\* requested and the decryption error is returned to the caller; no refund
\* is requested when the buy offer fails or the decryption succeeds.
C29_RefundAndDecryptionError ==
    /\ (InternalReturned /\ DecryptionFailed)
       => /\ WasCalled("refund_incoming_contract")
          /\ gw.preimage_res.value = Err("await_preimage_decryption")
    /\ WasCalled("refund_incoming_contract") => DecryptionFailed

\* What the code does: the refund is requested exactly when the decryption
\* failed, and the decryption error is returned unless the refund call
\* fails, in which case the refund's error is returned.
RefundOnlyAfterDecryptionFailure ==
    /\ WasCalled("refund_incoming_contract") => DecryptionFailed
    /\ CallCount("refund_incoming_contract") <= 1
    /\ (InternalReturned /\ DecryptionFailed)
       => /\ WasCalled("refund_incoming_contract")
          /\ gw.preimage_res.value \in {Err("await_preimage_decryption"),
                                        Err("refund_incoming_contract")}
    /\ (InternalReturned /\ ~DecryptionFailed)
       => /\ ~WasCalled("refund_incoming_contract")
          /\ gw.preimage_res.value \in {Ok, Err("buy_preimage_offer")}

\* The HTLC handler returned the decryption error after a refund.
RefundedAfterFailedDecryption ==
    /\ gw.kind = "htlc" /\ gw.pc = "done"
    /\ WasCalled("refund_incoming_contract")
    /\ gw.result = Some(Err("await_preimage_decryption"))

(***************************************************************************)
(* Properties of the order of the calls of an outgoing payment.            *)
(***************************************************************************)
\* The position of the first call of that name in the run, 0 when there is
\* none.
FirstCall(name) ==
    IF WasCalled(name)
    THEN CHOOSE k \in DOMAIN gw.calls :
           /\ gw.calls[k] = name
           /\ \A j \in DOMAIN gw.calls : gw.calls[j] = name => k <= j
    ELSE 0

\* The call that returns the preimage on the path taken.
PreimageCall ==
    IF WasCalled("ln_pay") THEN "ln_pay" ELSE "await_preimage_decryption"

\* C30: in every run claim_outgoing_contract is called only after a
\* preimage was obtained, abort_outgoing_payment only after the acquisition
\* of the preimage failed, never both in one run, and
\* await_outgoing_contract_claimed only after pay_invoice returned an
\* outpoint.
C30_ClaimXorAbort ==
    /\ WasCalled("claim_outgoing_contract")
       => /\ gw.kind = "pay"
          /\ gw.preimage_res = Some(Ok)
          /\ gw.failed \notin PreimageSteps
          /\ 0 < FirstCall(PreimageCall)
          /\ FirstCall(PreimageCall) < FirstCall("claim_outgoing_contract")
    /\ WasCalled("abort_outgoing_payment")
       => /\ gw.kind = "pay"
          /\ is_some(gw.preimage_res) /\ ~gw.preimage_res.value.ok
          /\ gw.failed \in PreimageSteps
          /\ 0 < FirstCall(gw.failed)
          /\ FirstCall(gw.failed) < FirstCall("abort_outgoing_payment")
    /\ ~(WasCalled("claim_outgoing_contract") /\ WasCalled("abort_outgoing_payment"))
    /\ CallCount("claim_outgoing_contract") <= 1
    /\ CallCount("abort_outgoing_payment") <= 1
    /\ (gw.pc = "await_claimed" \/ WasCalled("await_outgoing_contract_claimed"))
       => /\ gw.kind = "pay"
          /\ gw.pay_result = Some(Ok)
          /\ WasCalled("claim_outgoing_contract")
          /\ gw.failed = None

\* A payment whose claim was awaited after pay_invoice returned its
\* outpoint.
C30_Witness ==
    /\ gw.kind = "pay" /\ gw.pc = "done"
    /\ WasCalled("await_outgoing_contract_claimed")
    /\ gw.pay_result = Some(Ok)

\* A payment aborted after the decryption of the preimage failed.
AbortedAfterFailedDecryption ==
    /\ gw.kind = "pay" /\ gw.pc = "done"
    /\ WasCalled("abort_outgoing_payment")
    /\ gw.failed = "await_preimage_decryption"

(***************************************************************************)
(* Properties of the iterations of the gateway main loop.                  *)
(***************************************************************************)
InIteration == mainloop.pc \in {"fetch", "try_recv", "handling", "sleep"}

\* A step that takes a request off the channel.
Dequeues == channel # <<>> /\ channel' = Tail(channel)

\* A step that starts an iteration.
IterationStarts == mainloop'.pc = "fetch" /\ mainloop.pc # "fetch"

LoopOrder ==
    /\ InIteration => mainloop.registered /\ mainloop.iteration >= 1
    /\ mainloop.pc \in {"try_recv", "handling", "sleep"} => mainloop.fetched
    /\ \A id \in DOMAIN msgs :
         msgs[id].state # "queued"
         => /\ mainloop.registered
            /\ msgs[id].fetched
            /\ msgs[id].iteration >= 1

LoopSteps ==
    /\ Dequeues => /\ mainloop.registered
                   /\ mainloop.fetched
                   /\ mainloop.pc = "try_recv"
    /\ (mainloop.pc = "try_recv" /\ mainloop'.pc = "sleep") => channel = <<>>
    /\ (mainloop.pc = "try_recv" /\ channel # <<>>) => mainloop'.pc # "sleep"
    /\ (IterationStarts /\ mainloop.registered)
       => /\ mainloop.pc = "sleep"
          /\ mainloop.elapsed >= LoopPeriod
    /\ mainloop.pc = "fetch" /\ mainloop'.pc # "fetch"
       => /\ mainloop'.pc = "try_recv"
          /\ mainloop'.logged \in {0, 1}

\* C31: the gateway registers with the federation before the first
\* iteration; in every iteration the coin fetch finishes before a request is
\* dequeued, the drain ends only on an empty channel, and the next
\* iteration starts no earlier than 100 ms after the start of the current
\* one; a failed coin fetch is logged and is followed by the drain of the
\* same iteration.
C31_LoopIteration ==
    /\ []LoopOrder
    /\ [][LoopSteps]_vars

\* In its second iteration the loop answered a request after a coin fetch
\* that failed and was logged.
C31_Witness ==
    /\ mainloop.iteration = 2
    /\ \E id \in DOMAIN msgs :
         /\ msgs[id].state = "answered"
         /\ msgs[id].iteration = 2
         /\ msgs[id].logged = 1

(***************************************************************************)
(* Progress of the gateway main loop.                                      *)
(***************************************************************************)
MsgIds == 1..MaxMsgs

Sent(id) == id \in DOMAIN msgs

Answered(id) == id \in DOMAIN msgs /\ msgs[id].state = "answered"

\* C35 as stated: once registration has succeeded, every request placed on
\* the request channel is eventually dequeued and answered on its reply
\* channel, provided every coin fetch and every call a handler awaits
\* returns.
C35_EveryRequestAnswered ==
    \A id \in MsgIds : (mainloop.registered /\ Sent(id)) ~> Answered(id)

\* What the loop does: every request is answered unless a handler panics,
\* which ends run() with the request in hand and the later ones unanswered.
AnsweredUnlessRunPanics ==
    \A id \in MsgIds :
        (mainloop.registered /\ Sent(id))
        ~> (Answered(id) \/ mainloop.pc = "panicked")

\* While a handler is in progress no other request is dequeued: a handler
\* that never returns blocks all later requests.
HandlerBlocksLoop ==
    [][mainloop.pc = "handling" => ~Dequeues]_vars

\* A handler panicked with a later request waiting on the channel.
PanickedWithRequestWaiting ==
    /\ mainloop.pc = "panicked" /\ mainloop.registered
    /\ channel # <<>>

(***************************************************************************)
(* Properties of the config endpoint's wait for the signature.             *)
(***************************************************************************)
\* The download gate has run for request r.
GateRan(r) == dreq[r].pc \in {"finish", "done"} /\ dreq[r].info # "unparsable"

SignatureFirst ==
    /\ \A r \in DownloadReqs :
         /\ GateRan(r) => /\ is_some(signature_key)
                          /\ dreq[r].signature = signature_key
         /\ r \in Served => /\ is_some(dreq[r].signature)
                            /\ dreq[r].signature = signature_key
         /\ (dreq[r].pc = "wait" /\ ~is_some(signature_key))
            => /\ dreq[r].result = None
               /\ dreq[r].write = NoneOpt
    /\ is_some(download_count) => is_some(signature_key)

\* C32: the config endpoint never returns a client config and never
\* increments the download use count before ClientConfigSignatureKey is in
\* the database: it waits for the key, then runs the download gate, and the
\* response carries the signature read from the key.
C32_SignatureBeforeConfig ==
    /\ []SignatureFirst
    /\ [][download_count' # download_count => is_some(signature_key)]_vars

\* A request that arrived before the signature was stored waited for it and
\* was then answered with the config and that signature, its use counted.
C32_Witness ==
    \E r \in Served :
        /\ dreq[r].waited
        /\ dreq[r].signature = signature_key
        /\ is_some(download_count)

(***************************************************************************)
(* Properties of process_outcome with an outcome that does not decode.     *)
(***************************************************************************)
\* An authenticated process_outcome request whose outcome does not decode
\* has returned.
UndecodableAnswered(r) ==
    /\ areq[r].pc = "done"
    /\ areq[r].endpoint = "process_outcome"
    /\ areq[r].has_auth
    /\ ~areq[r].decodable

\* C33 as stated: an authenticated process_outcome request whose epoch
\* outcome cannot be decoded is answered with BadRequest and sends no
\* ForceProcessOutcome on the admission channel; only a failure to send on
\* the channel is answered with ServerError.
C33_UndecodableIsBadRequest ==
    \A r \in AdminReqs :
        /\ UndecodableAnswered(r)
           => /\ areq[r].result = "bad_request"
              /\ areq[r].sends = 0
              /\ AdminSentBy(r) = {}
        /\ (areq[r].pc = "done" /\ areq[r].result = "server_error")
           => (areq[r].sends = 1 /\ AdminSentBy(r) = {})

\* What the endpoint does: the request is answered with ServerError, as a
\* failed send is, and nothing is sent.
UndecodableIsServerError ==
    \A r \in AdminReqs :
        /\ UndecodableAnswered(r)
           => /\ areq[r].result = "server_error"
              /\ areq[r].sends = 0
              /\ AdminSentBy(r) = {}
        /\ (areq[r].pc = "done" /\ areq[r].result = "server_error")
           => \/ areq[r].sends = 1 /\ AdminSentBy(r) = {}
              \/ UndecodableAnswered(r)

\* Such a request was answered.
UndecodableReached == \E r \in AdminReqs : UndecodableAnswered(r)

(***************************************************************************)
(* Properties of the two database views of submit_transaction.             *)
(***************************************************************************)
\* C34 as stated: no Transaction(tx) is sent by a call whose validation
\* view holds the accepted record of tx, and the already-processed check
\* and the validations of a call see the same database state, also when
\* the consensus side commits tx between the two.
C34_OneViewPerCall ==
    /\ \A k \in DOMAIN sent_log :
         sent_log[k].tx \notin sub[sent_log[k].call].view
    /\ \A c \in Calls :
         Validated(c) => (sub[c].tx \in sub[c].view <=> sub[c].committed_at_call)

\* What the code does: the already-processed check reads a database
\* transaction of its own, so the view of the validations is the one of the
\* check or a later one, and a transaction committed in between is sent
\* only if the module validations still pass on the later view.
ViewNotOlderThanCheck ==
    /\ \A c \in Calls :
         Validated(c) => sub[c].tx \in sub[c].view \/ ~sub[c].committed_at_call
    /\ \A k \in DOMAIN sent_log :
         LET call == sub[sent_log[k].call]
         IN /\ ~call.committed_at_call
            /\ AllChecksPass(TxTable[call.tx], call.view)

\* A transaction was committed between the check and the validations of a
\* call, and the call sent it.
SentThoughAccepted ==
    \E k \in DOMAIN sent_log :
        sent_log[k].tx \in sub[sent_log[k].call].view

\* A transaction was committed between the check and the validations of a
\* call, and the validations turned it down.
RejectedOnLaterView ==
    \E c \in Calls :
        /\ sub[c].pc = "done" /\ sub[c].result \in SubmitErrors
        /\ ~sub[c].committed_at_call
        /\ sub[c].tx \in sub[c].view

====
